---- MODULE Spec2Model ----
(***************************************************************************)
(* A model of the virtio PCI transport (VirtioPciDevice) wrapping the      *)
(* virtio block back-end (Block) and its worker thread.                    *)
(*                                                                         *)
(* Spec       : the transport's BAR read/write dispatch, the activation    *)
(*              hand-over to Block::activate, the worker's poll loop and   *)
(*              the events that drive it.                                  *)
(* SpecConfig : Block::new / Block::features / Block::read_config applied  *)
(*              to bounded inputs.                                         *)
(* SpecBlk    : Worker::process_queue applied to batches of descriptor     *)
(*              chains the guest places in queue 0: Request::parse,        *)
(*              Request::execute, the status byte and the used ring.       *)
(* SpecRun    : Worker::run around process_queue: the flush timer, the     *)
(*              queue event and the kill event of one poll wakeup.         *)
(* SpecLive   : Spec with the fairness of the worker thread's steps.       *)
(* SpecApi    : SystemAllocator::allocate_irq, allocate_io_bars and the    *)
(*              VmRequest / VmResponse wire format applied to bounded      *)
(*              inputs.                                                    *)
(* SpecExec   : Request::execute applied to the requests Request::parse    *)
(*              can build, on a read-only or writable Block.               *)
(* SpecIter   : the counting of the process_queue loop against a guest     *)
(*              that moves the index of the available ring.                *)
(* SpecActivate : Block::activate called repeatedly on one Block, and its  *)
(*              Drop, with the identity of each kill EventFd pair.         *)
(***************************************************************************)
EXTENDS Integers, Sequences, FiniteSets, TLC

VARIABLES
    driver_status,       \* common_config.driver_status (u8)
    queues,              \* VirtioPciDevice.queues: Vec<Queue>
    device_activated,    \* VirtioPciDevice.device_activated
    interrupt_status,    \* Arc<AtomicUsize> shared by transport and worker
    interrupt_evt,       \* VirtioPciDevice.interrupt_evt is Some
    mem,                 \* VirtioPciDevice.mem is Some
    queue_evts,          \* VirtioPciDevice.queue_evts.len()
    read_only,           \* Block.read_only
    avail_features,      \* Block.avail_features
    disk_size,           \* size of the disk image given to Block::new
    kill_evt,            \* Block.kill_evt is Some
    disk_image,          \* Block.disk_image is Some
    worker_pc,           \* position of the worker thread
    workers_spawned,     \* number of threads spawned by Block::activate
    activate_calls,      \* number of calls of VirtioDevice::activate
    queue_evt_count,     \* counter of the EventFd of queue 0
    kill_evt_count,      \* counter of the kill EventFd pair
    interrupt_evt_count, \* counter of the interrupt EventFd moved to the worker
    avail_pending,       \* chains published in the available ring, not yet taken
    dropped,             \* the transport (and the Block it owns) was dropped
    last_bar,            \* the last BAR access: read or write, its window, the
                         \* first byte a read returned, whether it called activate
    cfg,                 \* the call under way of an operation applied to given
                         \* inputs, with its inputs and its result
    blk                  \* the worker's request processing: disk image, guest
                         \* memory, flush timer, available and used chains

vars == << driver_status, queues, device_activated, interrupt_status,
           interrupt_evt, mem, queue_evts, read_only, avail_features,
           disk_size, kill_evt, disk_image, worker_pc, workers_spawned,
           activate_calls, queue_evt_count, kill_evt_count,
           interrupt_evt_count, avail_pending, dropped, last_bar, cfg,
           blk >>

transportVars == << driver_status, queues, device_activated, interrupt_status,
                    interrupt_evt, mem, queue_evts, last_bar >>
blockVars == << read_only, avail_features, disk_size, kill_evt, disk_image >>
workerVars == << worker_pc, workers_spawned, activate_calls >>
eventVars == << queue_evt_count, kill_evt_count, interrupt_evt_count,
                avail_pending >>

(***************************************************************************)
(* Bounds of the model.                                                    *)
(***************************************************************************)
\* Largest value an EventFd counter is driven to.
MaxEvt == 1
\* Largest number of chains the guest leaves pending in the available ring.
MaxAvail == 1
\* Largest buffer handed to read_config, and how far past the end of the
\* configuration blob its offsets go.
MaxDataLen == 62
MaxPastEnd == 3
\* Feature pages asked of Block::features beyond pages 0 and 1.
MaxPage == 3

(***************************************************************************)
(* Bit arithmetic on bytes.                                                *)
(***************************************************************************)
Pow2(n) == 2 ^ n

Bit(x, i) == (x \div Pow2(i)) % 2

ByteBits == 0 .. 7

RECURSIVE BitAnd(_, _)
BitAnd(a, b) ==
    IF a = 0 \/ b = 0 THEN 0
    ELSE (a % 2) * (b % 2) + 2 * BitAnd(a \div 2, b \div 2)

RECURSIVE BitOr(_, _)
BitOr(a, b) ==
    IF a = 0 THEN b
    ELSE IF b = 0 THEN a
    ELSE (IF (a % 2) + (b % 2) > 0 THEN 1 ELSE 0)
             + 2 * BitOr(a \div 2, b \div 2)

\* !(v as usize), on the low byte: no operation of the program sets a higher
\* bit of the interrupt status.
BitNot(a) == 255 - (a % 256)

(***************************************************************************)
(* Program constants.                                                      *)
(***************************************************************************)
\* virtio_pci_device.rs: the windows of the capability BAR.
COMMON_CONFIG_BAR_OFFSET == 0
COMMON_CONFIG_SIZE == 56
ISR_CONFIG_BAR_OFFSET == 4096
ISR_CONFIG_SIZE == 1
DEVICE_CONFIG_BAR_OFFSET == 8192
DEVICE_CONFIG_SIZE == 4096
NOTIFICATION_BAR_OFFSET == 12288
NOTIFICATION_SIZE == 4096
NOTIFY_OFF_MULTIPLIER == 4

\* block.rs
QUEUE_SIZE == 256
QUEUE_SIZES == << QUEUE_SIZE >>
SECTOR_SHIFT == 9
VIRTIO_BLK_F_RO == 5
VIRTIO_BLK_F_FLUSH == 9
VIRTIO_BLK_F_DISCARD == 13
VIRTIO_BLK_F_WRITE_ZEROES == 14

\* virtio device status bits and the used-ring interrupt bit (virtio/mod.rs).
DEVICE_ACKNOWLEDGE == 1
DEVICE_DRIVER == 2
DEVICE_DRIVER_OK == 4
DEVICE_FEATURES_OK == 8
DEVICE_NEEDS_RESET == 64
DEVICE_FAILED == 128
INTERRUPT_STATUS_USED_RING == 1

\* Registers of the common configuration window (virtio_pci_common_config.rs).
REG_DEVICE_STATUS == 20
REG_QUEUE_SIZE == 24
REG_QUEUE_ENABLE == 28
REG_QUEUE_DESC == 32
REG_QUEUE_AVAIL == 40
REG_QUEUE_USED == 48

\* Size in bytes of the guest memory handed to set_guest_memory.
GuestMemSize == 65536

(***************************************************************************)
(* Byte slices.                                                            *)
(***************************************************************************)
RECURSIVE LeValue(_)
\* The unsigned integer a little-endian byte slice encodes.
LeValue(data) ==
    IF data = << >> THEN 0 ELSE Head(data) + 256 * LeValue(Tail(data))

RECURSIVE LeBytes(_, _)
\* to_le of an unsigned integer on n bytes.
LeBytes(v, n) ==
    IF n = 0 THEN << >> ELSE << v % 256 >> \o LeBytes(v \div 256, n - 1)

Zeros(n) == [i \in 1 .. n |-> 0]

(***************************************************************************)
(* Virtqueue (queue.rs): its registers and validity.                       *)
(***************************************************************************)
QueueNew(max_size) ==
    [ max_size |-> max_size, size |-> max_size, ready |-> FALSE,
      desc_table |-> 0, avail_ring |-> 0, used_ring |-> 0 ]

IsPowerOfTwo(n) == \E k \in 0 .. 15 : n = Pow2(k)

RegionOk(addr, len, align) ==
    /\ addr % align = 0
    /\ addr + len <= GuestMemSize

\* Queue::is_valid(mem)
QueueIsValid(q) ==
    /\ q.ready
    /\ q.size >= 1
    /\ q.size <= q.max_size
    /\ IsPowerOfTwo(q.size)
    /\ RegionOk(q.desc_table, 16 * q.size, 16)
    /\ RegionOk(q.avail_ring, 6 + 2 * q.size, 2)
    /\ RegionOk(q.used_ring, 6 + 8 * q.size, 4)

(***************************************************************************)
(* Common configuration window (VirtioPciCommonConfig).  queue_select      *)
(* stays at its construction value 0, the only queue of the block device.  *)
(***************************************************************************)
\* VirtioPciCommonConfig::write: the new (driver_status, queues).
CommonConfigWrite(o, data, ds, qs) ==
    LET v == LeValue(data)
        q == qs[1]
    IN  IF o = REG_DEVICE_STATUS /\ Len(data) = 1
          THEN [ driver_status |-> v, queues |-> qs ]
        ELSE IF o = REG_QUEUE_SIZE /\ Len(data) = 2
          THEN [ driver_status |-> ds,
                 queues |-> << [q EXCEPT !.size = v] >> ]
        ELSE IF o = REG_QUEUE_ENABLE /\ Len(data) = 2
          THEN [ driver_status |-> ds,
                 queues |-> << [q EXCEPT !.ready = (v = 1)] >> ]
        ELSE IF o = REG_QUEUE_DESC /\ Len(data) = 4
          THEN [ driver_status |-> ds,
                 queues |-> << [q EXCEPT !.desc_table = v] >> ]
        ELSE IF o = REG_QUEUE_AVAIL /\ Len(data) = 4
          THEN [ driver_status |-> ds,
                 queues |-> << [q EXCEPT !.avail_ring = v] >> ]
        ELSE IF o = REG_QUEUE_USED /\ Len(data) = 4
          THEN [ driver_status |-> ds,
                 queues |-> << [q EXCEPT !.used_ring = v] >> ]
        ELSE [ driver_status |-> ds, queues |-> qs ]

\* VirtioPciCommonConfig::read of the device_status register (reads are pure).
CommonConfigRead(o, data, ds) ==
    IF o = REG_DEVICE_STATUS /\ Len(data) = 1 THEN << ds >> ELSE data

(***************************************************************************)
(* Block back-end: construction, features, configuration blob.             *)
(***************************************************************************)
\* The value of a set of bit numbers.
RECURSIVE BitsValue(_)
BitsValue(bits) ==
    IF bits = {} THEN 0
    ELSE LET b == CHOOSE x \in bits : TRUE
         IN  Pow2(b) + BitsValue(bits \ {b})

\* Block::new: avail_features, as the set of feature bits it holds.
BlockAvailFeaturesNoRo(ro) ==
    {VIRTIO_BLK_F_FLUSH}
        \cup (IF ro THEN {}
              ELSE {VIRTIO_BLK_F_DISCARD, VIRTIO_BLK_F_WRITE_ZEROES})

BlockAvailFeatures(ro) ==
    {VIRTIO_BLK_F_FLUSH}
        \cup (IF ro THEN {VIRTIO_BLK_F_RO}
              ELSE {VIRTIO_BLK_F_DISCARD, VIRTIO_BLK_F_WRITE_ZEROES})

\* Block::features(page): the 32-bit page of avail_features.
Features(af, page) ==
    IF page = 0 THEN BitsValue({b \in af : b < 32})
    ELSE IF page = 1 THEN BitsValue({b - 32 : b \in {x \in af : x >= 32}})
    ELSE 0

\* Le32::from(u32::MAX), the encoding of MAX_DISCARD_SECTORS and
\* MAX_WRITE_ZEROES_SECTORS.
U32MaxBytes == << 255, 255, 255, 255 >>

DISCARD_SECTOR_ALIGNMENT == 128

\* A capacity that counts a trailing partial sector as a whole one.
CapacityRoundUp(size) ==
    (size + Pow2(SECTOR_SHIFT) - 1) \div Pow2(SECTOR_SHIFT)

\* disk_size >> SECTOR_SHIFT
Capacity(size) == size \div Pow2(SECTOR_SHIFT)

\* build_config_space(disk_size).as_slice(): virtio_blk_config, field by field.
ConfigSpace(size) ==
    LeBytes(Capacity(size), 8)                 \* capacity
        \o Zeros(4)                            \* size_max
        \o Zeros(4)                            \* seg_max
        \o Zeros(4)                            \* geometry
        \o Zeros(4)                            \* blk_size
        \o Zeros(8)                            \* topology
        \o Zeros(1)                            \* writeback
        \o Zeros(3)                            \* unused0
        \o U32MaxBytes                         \* max_discard_sectors
        \o LeBytes(1, 4)                       \* max_discard_seg
        \o LeBytes(DISCARD_SECTOR_ALIGNMENT, 4)
        \o U32MaxBytes                         \* max_write_zeroes_sectors
        \o LeBytes(1, 4)                       \* max_write_zeroes_seg
        \o << 1 >>                             \* write_zeroes_may_unmap
        \o Zeros(3)                            \* unused1

\* size_of_val(&self.config_space)
ConfigLen == Len(ConfigSpace(0))

Min(a, b) == IF a < b THEN a ELSE b

\* A read_config that copies from the start of the blob, whatever the offset.
ReadConfigNoOffset(cs, offset, data) ==
    IF offset >= Len(cs) THEN data
    ELSE LET n == Min(offset + Len(data), Len(cs)) - offset
         IN  [i \in 1 .. Len(data) |-> IF i <= n THEN cs[i] ELSE data[i]]

\* Block::read_config(offset, data): the contents of data afterwards.  The
\* write_all copies config_space[offset..end) to the front of data and leaves
\* the rest of it as it was; offset.checked_add cannot fail once
\* offset < config_len.
ReadConfig(cs, offset, data) ==
    IF offset >= Len(cs) THEN data
    ELSE LET end == Min(offset + Len(data), Len(cs))
             n == end - offset
         IN  [i \in 1 .. Len(data) |->
                 IF i <= n THEN cs[offset + i] ELSE data[i]]

(***************************************************************************)
(* Block::activate and the transport's activation condition.               *)
(***************************************************************************)
\* What the environment lets Block::activate do: both EventFd::new and the
\* thread spawn succeed, EventFd::new (or try_clone) fails, the spawn fails.
ActivateOutcomes == {"ok", "eventfd_failed", "spawn_failed"}

\* A Block::activate that keeps no kill EventFd for itself.
BlockActivateNoKillEvt(nq, ne, outcome, kill, disk) ==
    IF nq # 1 \/ ne # 1 \/ outcome = "eventfd_failed"
      THEN [ kill_evt |-> kill, disk_image |-> disk, spawned |-> FALSE,
             new_pair |-> FALSE ]
    ELSE [ kill_evt |-> kill, disk_image |-> FALSE,
           spawned |-> (disk /\ outcome = "ok"), new_pair |-> FALSE ]

\* Block::activate(mem, interrupt_evt, status, queues, queue_evts) with
\* nq = queues.len(), ne = queue_evts.len(): the new kill_evt and disk_image
\* of the Block, whether a worker thread runs, and whether self.kill_evt was
\* assigned one end of a newly created kill EventFd pair.
BlockActivate(nq, ne, outcome, kill, disk) ==
    IF nq # 1 \/ ne # 1
      THEN [ kill_evt |-> kill, disk_image |-> disk, spawned |-> FALSE,
             new_pair |-> FALSE ]
    ELSE IF outcome = "eventfd_failed"
      THEN [ kill_evt |-> kill, disk_image |-> disk, spawned |-> FALSE,
             new_pair |-> FALSE ]
    ELSE IF disk
      THEN [ kill_evt |-> TRUE, disk_image |-> FALSE,
             spawned |-> (outcome = "ok"), new_pair |-> TRUE ]
    ELSE [ kill_evt |-> TRUE, disk_image |-> FALSE, spawned |-> FALSE,
           new_pair |-> TRUE ]

\* VirtioPciDevice::is_driver_ready
ready_bits ==
    BitOr(BitOr(DEVICE_ACKNOWLEDGE, DEVICE_DRIVER),
          BitOr(DEVICE_DRIVER_OK, DEVICE_FEATURES_OK))

\* An is_driver_ready that only asks for the four ready bits to be set.
IsDriverReadyAnyExtra(ds) == BitAnd(ds, ready_bits) = ready_bits

IsDriverReady(ds) ==
    /\ ds = ready_bits
    /\ BitAnd(ds, DEVICE_FAILED) = 0

\* An are_queues_valid that does not ask for guest memory to be set.
AreQueuesValidNoMem(m, qs) ==
    \A i \in 1 .. Len(qs) : QueueIsValid(qs[i])

\* VirtioPciDevice::are_queues_valid
AreQueuesValid(m, qs) ==
    IF m THEN \A i \in 1 .. Len(qs) : QueueIsValid(qs[i]) ELSE FALSE

\* The guard of the activation block of write_bar.
ActivationGuardNoLatch(activated, ds, m, qs) ==
    IsDriverReady(ds) /\ AreQueuesValid(m, qs)

ActivationGuard(activated, ds, m, qs) ==
    ~activated /\ IsDriverReady(ds) /\ AreQueuesValid(m, qs)

(***************************************************************************)
(* The ISR window.                                                         *)
(***************************************************************************)
\* read_bar, ISR window: the (data, interrupt_status) after the read.
IsrRead(status, data) ==
    IF Len(data) >= 1
      THEN [ data |-> [data EXCEPT ![1] = status % 256], status |-> status ]
      ELSE [ data |-> data, status |-> status ]

\* A write to the ISR window that stores instead of masking.
IsrWriteStore(status, data) ==
    IF Len(data) >= 1 THEN BitNot(data[1]) ELSE status

\* write_bar, ISR window: interrupt_status.fetch_and(!(v as usize)).
IsrWrite(status, data) ==
    IF Len(data) >= 1 THEN BitAnd(status, BitNot(data[1])) ELSE status

InWindow(o, base, size) == base <= o /\ o < base + size

Region(o) ==
    IF InWindow(o, COMMON_CONFIG_BAR_OFFSET, COMMON_CONFIG_SIZE) THEN "common"
    ELSE IF InWindow(o, ISR_CONFIG_BAR_OFFSET, ISR_CONFIG_SIZE) THEN "isr"
    ELSE IF InWindow(o, DEVICE_CONFIG_BAR_OFFSET, DEVICE_CONFIG_SIZE) THEN "device"
    ELSE IF InWindow(o, NOTIFICATION_BAR_OFFSET, NOTIFICATION_SIZE) THEN "notify"
    ELSE "none"

FirstByte(data) == IF Len(data) >= 1 THEN data[1] ELSE -1

(***************************************************************************)
(* Inputs.                                                                 *)
(***************************************************************************)
\* Status bytes the driver writes: reset, ready, ready with
\* DEVICE_NEEDS_RESET, ready with FAILED.
StatusVals == {0, 15, 79, 143}

\* (offset, data) pairs of write_bar.  The descriptor-table address 8 is
\* misaligned; the other queue registers keep their construction values.
WriteInputs ==
    { << COMMON_CONFIG_BAR_OFFSET + REG_DEVICE_STATUS, << v >> >> :
          v \in StatusVals }
    \cup { << COMMON_CONFIG_BAR_OFFSET + REG_QUEUE_ENABLE, d >> :
          d \in { << 0, 0 >>, << 1, 0 >> } }
    \cup { << COMMON_CONFIG_BAR_OFFSET + REG_QUEUE_DESC, d >> :
          d \in { << 0, 0, 0, 0 >>, << 8, 0, 0, 0 >> } }
    \cup { << ISR_CONFIG_BAR_OFFSET, d >> :
          d \in { << >>, << 1 >>, << 2 >> } }
    \cup { << DEVICE_CONFIG_BAR_OFFSET, << 0 >> >> }
    \cup { << NOTIFICATION_BAR_OFFSET + n * NOTIFY_OFF_MULTIPLIER, << n, 0 >> >> :
          n \in 0 .. Len(QUEUE_SIZES) - 1 }

\* (offset, data) pairs of read_bar; data is the caller's buffer.
ReadInputs ==
    { << o, << 0 >> >> : o \in { ISR_CONFIG_BAR_OFFSET,
                                 DEVICE_CONFIG_BAR_OFFSET } }

\* The disk image of the block tests: 0x1000 bytes.
TestDiskSize == 4096

NoCall == [ op |-> "none" ]

\* No request processing is modelled.
NoBlk == [ phase |-> "none" ]

Init ==
    /\ driver_status = 0
    /\ queues = [i \in 1 .. Len(QUEUE_SIZES) |-> QueueNew(QUEUE_SIZES[i])]
    /\ device_activated = FALSE
    /\ interrupt_status = 0
    /\ interrupt_evt = FALSE
    /\ mem = FALSE
    /\ queue_evts = Len(QUEUE_SIZES)
    /\ read_only \in BOOLEAN
    /\ avail_features = BlockAvailFeatures(read_only)
    /\ disk_size = TestDiskSize
    /\ kill_evt = FALSE
    /\ disk_image = TRUE
    /\ worker_pc = "none"
    /\ workers_spawned = 0
    /\ activate_calls = 0
    /\ queue_evt_count = 0
    /\ kill_evt_count = 0
    /\ interrupt_evt_count = 0
    /\ avail_pending = 0
    /\ dropped = FALSE
    /\ last_bar = [ op |-> "none", region |-> "none", byte |-> 0,
                    called |-> FALSE ]
    /\ cfg = NoCall
    /\ blk = NoBlk

(***************************************************************************)
(* The transport (VirtioPciDevice).                                        *)
(***************************************************************************)
\* PciDevice::assign_irq
AssignIrq ==
    /\ ~dropped
    /\ interrupt_evt' = TRUE
    /\ UNCHANGED << driver_status, queues, device_activated, interrupt_status,
                    mem, queue_evts, last_bar, cfg, blk, dropped >>
    /\ UNCHANGED << blockVars, workerVars, eventVars >>

\* PciDevice::set_guest_memory
SetGuestMemory ==
    /\ ~dropped
    /\ mem' = TRUE
    /\ UNCHANGED << driver_status, queues, device_activated, interrupt_status,
                    interrupt_evt, queue_evts, last_bar, cfg, blk, dropped >>
    /\ UNCHANGED << blockVars, workerVars, eventVars >>

\* PciDevice::write_bar(bar0 + o, data): the dispatch on the window, then the
\* activation block.
WriteBar(o, data) ==
    LET r == Region(o)
        cc == IF r = "common"
                THEN CommonConfigWrite(o - COMMON_CONFIG_BAR_OFFSET, data,
                                       driver_status, queues)
                ELSE [ driver_status |-> driver_status, queues |-> queues ]
        guard == ActivationGuard(device_activated, cc.driver_status, mem,
                                 cc.queues)
        call == guard /\ interrupt_evt /\ mem
    IN  /\ ~dropped
        /\ driver_status' = cc.driver_status
        /\ queues' = cc.queues
        /\ interrupt_status' =
              IF r = "isr" THEN IsrWrite(interrupt_status, data)
              ELSE interrupt_status
        /\ last_bar' = [ op |-> "write", region |-> r, byte |-> 0,
                         called |-> call ]
        \* interrupt_evt.take() comes first, then mem.take()
        /\ interrupt_evt' = IF guard THEN FALSE ELSE interrupt_evt
        /\ mem' = IF guard /\ interrupt_evt THEN FALSE ELSE mem
        /\ IF call
             THEN \E outcome \in ActivateOutcomes :
                    LET b == BlockActivate(Len(cc.queues), queue_evts, outcome,
                                           kill_evt, disk_image)
                    IN  /\ kill_evt' = b.kill_evt
                        /\ disk_image' = b.disk_image
                        /\ worker_pc' = IF b.spawned THEN "start" ELSE worker_pc
                        /\ workers_spawned' =
                              workers_spawned + (IF b.spawned THEN 1 ELSE 0)
                        /\ activate_calls' = activate_calls + 1
                        /\ queue_evts' = 0
                        /\ device_activated' = TRUE
             ELSE UNCHANGED << kill_evt, disk_image, worker_pc, workers_spawned,
                               activate_calls, queue_evts, device_activated >>
        /\ UNCHANGED << read_only, avail_features, disk_size, eventVars,
                        dropped, cfg, blk >>

\* PciDevice::read_bar(bar0 + o, data)
ReadBar(o, data) ==
    LET r == Region(o)
        isr == IsrRead(interrupt_status, data)
        out == IF r = "common"
                 THEN CommonConfigRead(o - COMMON_CONFIG_BAR_OFFSET, data,
                                       driver_status)
               ELSE IF r = "isr" THEN isr.data
               ELSE IF r = "device"
                 THEN ReadConfig(ConfigSpace(disk_size),
                                 o - DEVICE_CONFIG_BAR_OFFSET, data)
               ELSE data
    IN  /\ ~dropped
        /\ interrupt_status' = IF r = "isr" THEN isr.status ELSE interrupt_status
        /\ last_bar' = [ op |-> "read", region |-> r, byte |-> FirstByte(out),
                         called |-> FALSE ]
        /\ UNCHANGED << driver_status, queues, device_activated, interrupt_evt,
                        mem, queue_evts, cfg, blk, dropped >>
        /\ UNCHANGED << blockVars, workerVars, eventVars >>

\* The transport is dropped, and with it the Block it owns: Drop for Block.
Drop ==
    /\ ~dropped
    /\ dropped' = TRUE
    /\ kill_evt' = FALSE
    /\ kill_evt_count' = IF kill_evt THEN kill_evt_count + 1 ELSE kill_evt_count
    /\ UNCHANGED << transportVars, read_only, avail_features, disk_size,
                    disk_image, workerVars, queue_evt_count,
                    interrupt_evt_count, avail_pending, cfg, blk >>

(***************************************************************************)
(* The environment of the worker: the hypervisor and the guest driver.     *)
(***************************************************************************)
\* A guest write to the notify address of queue 0, intercepted by the
\* ioeventfd registered from ioeventfds(): the queue EventFd is written.
QueueNotify ==
    /\ queue_evt_count < MaxEvt
    /\ queue_evt_count' = queue_evt_count + 1
    /\ UNCHANGED << transportVars, blockVars, workerVars, kill_evt_count,
                    interrupt_evt_count, avail_pending, dropped, cfg, blk >>

\* The guest driver publishes one more chain in the available ring.
GuestAddAvail ==
    /\ avail_pending < MaxAvail
    /\ avail_pending' = avail_pending + 1
    /\ UNCHANGED << transportVars, blockVars, workerVars, queue_evt_count,
                    kill_evt_count, interrupt_evt_count, dropped, cfg, blk >>

\* The irqfd consumes the interrupt EventFd and injects the interrupt.
IrqfdConsume ==
    /\ interrupt_evt_count > 0
    /\ interrupt_evt_count' = 0
    /\ UNCHANGED << transportVars, blockVars, workerVars, queue_evt_count,
                    kill_evt_count, avail_pending, dropped, cfg, blk >>

(***************************************************************************)
(* The worker thread (Worker::run).                                        *)
(***************************************************************************)
\* The start of run: TimerFd::new and the PollContext are created, or one of
\* them fails and run returns.
WorkerSetup ==
    /\ worker_pc = "start"
    /\ \E ok \in BOOLEAN : worker_pc' = IF ok THEN "poll" ELSE "exited"
    /\ UNCHANGED << transportVars, blockVars, workers_spawned, activate_calls,
                    eventVars, dropped, cfg, blk >>

\* The tokens poll_ctx.wait() reports readable.
ReadyTokens ==
    (IF queue_evt_count > 0 THEN {"QueueAvailable"} ELSE {})
        \cup (IF kill_evt_count > 0 THEN {"Kill"} ELSE {})

\* The orders in which events.iter_readable() may yield a set of tokens.
Orders(S) ==
    { o \in UNION { [1 .. n -> S] : n \in {Cardinality(S)} } :
          \A i, j \in 1 .. Len(o) : i # j => o[i] # o[j] }

\* Worker::process_queue(0): every pending chain is taken and gets a used
\* entry; the result is used_count > 0.
ProcessQueue(st) ==
    [ st EXCEPT !.needs_interrupt = st.needs_interrupt \/ (st.avail > 0),
                !.avail = 0 ]

RECURSIVE RunEventsKillIgnored(_, _)
\* The for loop with a Kill token that does not leave 'poll.
RunEventsKillIgnored(order, st) ==
    IF order = << >> \/ st.exit THEN st
    ELSE LET t == Head(order)
             nxt == IF t = "Kill" THEN st
                    ELSE ProcessQueue([st EXCEPT !.queue_evt = 0])
         IN  RunEventsKillIgnored(Tail(order), nxt)

RECURSIVE RunEvents(_, _)
\* The for loop over the readable events of one wakeup; break 'poll leaves
\* it at once.
RunEvents(order, st) ==
    IF order = << >> \/ st.exit THEN st
    ELSE LET t == Head(order)
             nxt == IF t = "Kill" THEN [st EXCEPT !.exit = TRUE]
                    ELSE ProcessQueue([st EXCEPT !.queue_evt = 0])
         IN  RunEvents(Tail(order), nxt)

\* One turn of the 'poll loop: wait, handle the readable events, then either
\* leave the loop or go on to signal_used_queue when needs_interrupt.
WorkerWake ==
    /\ worker_pc = "poll"
    /\ ReadyTokens # {}
    /\ \E order \in Orders(ReadyTokens) :
          LET st == RunEvents(order, [ needs_interrupt |-> FALSE,
                                       avail |-> avail_pending,
                                       queue_evt |-> queue_evt_count,
                                       exit |-> FALSE ])
          IN  /\ avail_pending' = st.avail
              /\ queue_evt_count' = st.queue_evt
              /\ worker_pc' = IF st.exit THEN "exited"
                              ELSE IF st.needs_interrupt THEN "signal"
                              ELSE "poll"
    /\ UNCHANGED << transportVars, blockVars, workers_spawned, activate_calls,
                    kill_evt_count, interrupt_evt_count, dropped, cfg, blk >>

\* Worker::signal_used_queue, first half: interrupt_status.fetch_or(USED_RING).
WorkerSignal ==
    /\ worker_pc = "signal"
    /\ interrupt_status' = BitOr(interrupt_status, INTERRUPT_STATUS_USED_RING)
    /\ worker_pc' = "irq"
    /\ UNCHANGED << driver_status, queues, device_activated, interrupt_evt, mem,
                    queue_evts, last_bar, blockVars, workers_spawned,
                    activate_calls, eventVars, dropped, cfg, blk >>

\* Worker::signal_used_queue, second half: interrupt_evt.write(1).
WorkerIrq ==
    /\ worker_pc = "irq"
    /\ interrupt_evt_count < MaxEvt
    /\ interrupt_evt_count' = interrupt_evt_count + 1
    /\ worker_pc' = "poll"
    /\ UNCHANGED << transportVars, blockVars, workers_spawned, activate_calls,
                    queue_evt_count, kill_evt_count, avail_pending, dropped,
                    cfg, blk >>

Next ==
    \/ AssignIrq
    \/ SetGuestMemory
    \/ \E w \in WriteInputs : WriteBar(w[1], w[2])
    \/ \E r \in ReadInputs : ReadBar(r[1], r[2])
    \/ Drop
    \/ QueueNotify
    \/ GuestAddAvail
    \/ IrqfdConsume
    \/ WorkerSetup
    \/ WorkerWake
    \/ WorkerSignal
    \/ WorkerIrq

Spec == Init /\ [][Next]_vars

\* The worker thread is scheduled, and so is the irqfd that drains the
\* interrupt event.
SpecLive ==
    /\ Spec
    /\ WF_vars(WorkerSetup)
    /\ WF_vars(WorkerWake)
    /\ WF_vars(WorkerSignal)
    /\ WF_vars(WorkerIrq)
    /\ WF_vars(IrqfdConsume)

(***************************************************************************)
(* Block::features and Block::read_config called on a constructed Block.   *)
(***************************************************************************)
\* Disk image sizes: less than one sector, the test image, one with a trailing
\* partial sector, one whose capacity 0x030201 has three distinct non-zero
\* bytes.
DiskSizes == {511, 4096, 4097, 100925953}

\* Bytes the caller's buffer holds before read_config.
FillVals == {0, 170}

\* Feature pages asked for.
Pages == 0 .. MaxPage

InitConfig ==
    /\ driver_status = 0
    /\ queues = [i \in 1 .. Len(QUEUE_SIZES) |-> QueueNew(QUEUE_SIZES[i])]
    /\ device_activated = FALSE
    /\ interrupt_status = 0
    /\ interrupt_evt = FALSE
    /\ mem = FALSE
    /\ queue_evts = Len(QUEUE_SIZES)
    /\ read_only \in BOOLEAN
    /\ avail_features = BlockAvailFeatures(read_only)
    /\ disk_size \in DiskSizes
    /\ kill_evt = FALSE
    /\ disk_image = TRUE
    /\ worker_pc = "none"
    /\ workers_spawned = 0
    /\ activate_calls = 0
    /\ queue_evt_count = 0
    /\ kill_evt_count = 0
    /\ interrupt_evt_count = 0
    /\ avail_pending = 0
    /\ dropped = FALSE
    /\ last_bar = [ op |-> "none", region |-> "none", byte |-> 0,
                    called |-> FALSE ]
    /\ cfg = NoCall
    /\ blk = NoBlk

\* b.read_config(offset, &mut data) with data holding len bytes of fill.
ReadConfigCall ==
    /\ cfg = NoCall
    /\ \E offset \in 0 .. ConfigLen + MaxPastEnd, len \in 0 .. MaxDataLen,
          fill \in FillVals :
          LET data == [i \in 1 .. len |-> fill]
          IN  cfg' = [ op |-> "read_config", offset |-> offset,
                       before |-> data,
                       after |-> ReadConfig(ConfigSpace(disk_size), offset,
                                            data) ]
    /\ UNCHANGED << transportVars, blockVars, workerVars, eventVars, dropped,
                    blk >>

\* b.features(page)
FeaturesCall ==
    /\ cfg = NoCall
    /\ \E page \in Pages :
          cfg' = [ op |-> "features", page |-> page,
                   result |-> Features(avail_features, page) ]
    /\ UNCHANGED << transportVars, blockVars, workerVars, eventVars, dropped,
                    blk >>

\* The caller is done with the result of its call.
CallReturn ==
    /\ cfg # NoCall
    /\ cfg' = NoCall
    /\ UNCHANGED << transportVars, blockVars, workerVars, eventVars, dropped,
                    blk >>

NextConfig ==
    \/ ReadConfigCall
    \/ FeaturesCall
    \/ CallReturn

SpecConfig == InitConfig /\ [][NextConfig]_vars

(***************************************************************************)
(* Byte contents of the disk image and of guest memory, kept as runs       *)
(* << [n |-> count, v |-> byte], ... >> of equal bytes.                    *)
(***************************************************************************)
RECURSIVE RLen(_)
\* Number of bytes of a content.
RLen(rs) == IF rs = << >> THEN 0 ELSE Head(rs).n + RLen(Tail(rs))

RECURSIVE RTake(_, _)
\* The first k bytes.
RTake(rs, k) ==
    IF k <= 0 \/ rs = << >> THEN << >>
    ELSE IF Head(rs).n <= k
           THEN << Head(rs) >> \o RTake(Tail(rs), k - Head(rs).n)
         ELSE << [ n |-> k, v |-> Head(rs).v ] >>

RECURSIVE RDrop(_, _)
\* All but the first k bytes.
RDrop(rs, k) ==
    IF k <= 0 \/ rs = << >> THEN rs
    ELSE IF Head(rs).n <= k THEN RDrop(Tail(rs), k - Head(rs).n)
         ELSE << [ n |-> Head(rs).n - k, v |-> Head(rs).v ] >> \o Tail(rs)

RECURSIVE RNorm(_)
\* The same bytes with adjacent runs of one value merged.
RNorm(rs) ==
    IF Len(rs) < 2 THEN rs
    ELSE IF rs[1].v = rs[2].v
           THEN RNorm(<< [ n |-> rs[1].n + rs[2].n, v |-> rs[1].v ] >>
                          \o SubSeq(rs, 3, Len(rs)))
         ELSE << rs[1] >> \o RNorm(Tail(rs))

\* n bytes of value v.
RFill(n, v) == IF n <= 0 THEN << >> ELSE << [ n |-> n, v |-> v ] >>

\* Bytes [off, off + len) of a content (fewer when it ends before).
RSlice(rs, off, len) == RNorm(RTake(RDrop(rs, off), len))

\* The content with the bytes from off on overwritten by new; a content that
\* ends before off is extended with zeros up to off first.
RSplice(rs, off, new) ==
    LET base == IF RLen(rs) < off THEN rs \o RFill(off - RLen(rs), 0) ELSE rs
    IN  RNorm(RTake(base, off) \o new \o RDrop(base, off + RLen(new)))

RECURSIVE RBytes(_)
\* The content as a sequence of bytes.
RBytes(rs) ==
    IF rs = << >> THEN << >>
    ELSE [i \in 1 .. Head(rs).n |-> Head(rs).v] \o RBytes(Tail(rs))

RECURSIVE ROfBytes(_)
\* A sequence of bytes as a content.
ROfBytes(bs) ==
    IF bs = << >> THEN << >>
    ELSE RNorm(<< [ n |-> 1, v |-> Head(bs) ] >> \o ROfBytes(Tail(bs)))

(***************************************************************************)
(* 64-bit values (sector numbers, disk offsets): the low 16 bits as a      *)
(* number, the bits 16..63 as the set of the positions that are set.       *)
(***************************************************************************)
U64(lo, hibits) == [ lo |-> lo, hibits |-> hibits ]

\* Le64 read from 8 bytes of guest memory.
U64OfBytes(bs) ==
    U64(bs[1] + 256 * bs[2],
        { b \in 16 .. 63 : Bit(bs[(b \div 8) + 1], b % 8) = 1 })

\* The 8 little-endian bytes of a 64-bit value.
U64Bytes(x) ==
    [i \in 1 .. 8 |->
        IF i <= 2 THEN (x.lo \div Pow2(8 * (i - 1))) % 256
        ELSE BitsValue({ b - 8 * (i - 1) :
                         b \in { c \in x.hibits : c \div 8 = i - 1 } })]

\* x << k on u64: the bits shifted past bit 63 are dropped.  The low part
\* stays a number while lo * 2^k has no bit above 25.
U64Shl(x, k) ==
    [ lo |-> x.lo * Pow2(k),
      hibits |-> { b + k : b \in { c \in x.hibits : c + k <= 63 } } ]

(***************************************************************************)
(* Request types and status bytes.                                         *)
(***************************************************************************)
VIRTIO_BLK_T_IN == 0
VIRTIO_BLK_T_OUT == 1
VIRTIO_BLK_T_FLUSH == 4
VIRTIO_BLK_T_DISCARD == 11
VIRTIO_BLK_T_WRITE_ZEROES == 13

VIRTIO_BLK_S_OK == 0
VIRTIO_BLK_S_IOERR == 1
VIRTIO_BLK_S_UNSUPP == 2

VIRTIO_BLK_DISCARD_WRITE_ZEROES_FLAG_UNMAP == 1

\* size_of::<virtio_blk_discard_write_zeroes>()
SegSize == 16

(***************************************************************************)
(* Guest memory (GuestMemory): GuestMemSize bytes from address 0, every    *)
(* access checked against its bounds.                                      *)
(***************************************************************************)
\* mem.checked_offset(addr, off)
CheckedOffset(addr, off) ==
    IF addr + off < GuestMemSize THEN [ some |-> TRUE, addr |-> addr + off ]
    ELSE [ some |-> FALSE, addr |-> 0 ]

\* mem.read_obj_from_addr(addr) of an object of size bytes
ReadObjFromAddr(gm, addr, size) ==
    IF addr + size <= GuestMemSize
      THEN [ ok |-> TRUE, bytes |-> RBytes(RSlice(gm, addr, size)) ]
      ELSE [ ok |-> FALSE, bytes |-> << >> ]

\* mem.write_obj_at_addr(val, addr) of the bytes of val
WriteObjAtAddr(gm, addr, bytes) ==
    IF addr + Len(bytes) <= GuestMemSize
      THEN [ ok |-> TRUE, gm |-> RSplice(gm, addr, ROfBytes(bytes)) ]
      ELSE [ ok |-> FALSE, gm |-> gm ]

(***************************************************************************)
(* Request parsing.  A chain is [index, descs]; a descriptor is            *)
(* [addr, len, wo] with wo its write-only flag.                            *)
(***************************************************************************)
ParseErr(e) == [ ok |-> FALSE, err |-> e ]

ParseOk(t, sec, daddr, dlen, saddr, seg) ==
    [ ok |-> TRUE, err |-> "none",
      req |-> [ request_type |-> t, sector |-> sec, data_addr |-> daddr,
                data_len |-> dlen, status_addr |-> saddr,
                discard_write_zeroes_seg |-> seg ] ]

NoSeg == [ some |-> FALSE ]

\* request_type(mem, desc_addr): the u32 at the head; any value is a type.
RequestType(gm, desc_addr) ==
    LET r == ReadObjFromAddr(gm, desc_addr, 4)
    IN  IF r.ok THEN [ ok |-> TRUE, v |-> LeValue(r.bytes) ]
        ELSE [ ok |-> FALSE, v |-> 0 ]

\* sector(mem, desc_addr): the u64 at desc_addr + 8.
Sector(gm, desc_addr) ==
    LET a == CheckedOffset(desc_addr, 8)
    IN  IF ~a.some THEN [ ok |-> FALSE, err |-> "CheckedOffset" ]
        ELSE LET r == ReadObjFromAddr(gm, a.addr, 8)
             IN  IF r.ok THEN [ ok |-> TRUE, v |-> U64OfBytes(r.bytes) ]
                 ELSE [ ok |-> FALSE, err |-> "GuestMemory" ]

\* discard_write_zeroes_segment(mem, seg_addr)
DiscardWriteZeroesSegment(gm, seg_addr) ==
    LET r == ReadObjFromAddr(gm, seg_addr, SegSize)
    IN  IF r.ok
          THEN [ ok |-> TRUE,
                 v |-> [ some |-> TRUE,
                         sector |-> U64OfBytes(SubSeq(r.bytes, 1, 8)),
                         num_sectors |-> LeValue(SubSeq(r.bytes, 9, 12)),
                         flags |-> LeValue(SubSeq(r.bytes, 13, 16)) ] ]
          ELSE [ ok |-> FALSE ]

\* avail_desc.next_descriptor() of the i-th descriptor: its position, or 0.
NextDescriptor(chain, i) == IF i < Len(chain.descs) THEN i + 1 ELSE 0

\* Request::parse_flush
ParseFlush(chain, gm) ==
    LET sec == Sector(gm, chain.descs[1].addr)
        si == NextDescriptor(chain, 1)
    IN  IF ~sec.ok THEN ParseErr(sec.err)
        ELSE IF si = 0 THEN ParseErr("DescriptorChainTooShort")
        ELSE IF ~chain.descs[si].wo
          THEN ParseErr("UnexpectedReadOnlyDescriptor")
        ELSE IF chain.descs[si].len < 1
          THEN ParseErr("DescriptorLengthTooSmall")
        ELSE ParseOk(VIRTIO_BLK_T_FLUSH, sec.v, 0, 0, chain.descs[si].addr,
                     NoSeg)

\* Request::parse_discard_write_zeroes
ParseDiscardWriteZeroes(chain, gm, req_type) ==
    LET gi == NextDescriptor(chain, 1)
        si == IF gi = 0 THEN 0 ELSE NextDescriptor(chain, gi)
    IN  IF gi = 0 \/ si = 0 THEN ParseErr("DescriptorChainTooShort")
        ELSE IF chain.descs[gi].wo
          THEN ParseErr("UnexpectedWriteOnlyDescriptor")
        ELSE IF chain.descs[gi].len < SegSize
          THEN ParseErr("DescriptorLengthTooSmall")
        ELSE LET seg == DiscardWriteZeroesSegment(gm, chain.descs[gi].addr)
             IN  IF ~seg.ok THEN ParseErr("GuestMemory")
                 ELSE IF ~chain.descs[si].wo
                   THEN ParseErr("UnexpectedReadOnlyDescriptor")
                 ELSE IF chain.descs[si].len < 1
                   THEN ParseErr("DescriptorLengthTooSmall")
                 ELSE ParseOk(req_type, U64(0, {}), 0, 0,
                              chain.descs[si].addr, seg.v)

\* A parse_read_write that checks the direction of the data descriptor for
\* IN only.
ParseReadWriteNoOutCheck(chain, gm, req_type) ==
    LET sec == Sector(gm, chain.descs[1].addr)
        di == NextDescriptor(chain, 1)
        si == IF di = 0 THEN 0 ELSE NextDescriptor(chain, di)
    IN  IF ~sec.ok THEN ParseErr(sec.err)
        ELSE IF di = 0 \/ si = 0 THEN ParseErr("DescriptorChainTooShort")
        ELSE IF ~chain.descs[di].wo /\ req_type = VIRTIO_BLK_T_IN
          THEN ParseErr("UnexpectedReadOnlyDescriptor")
        ELSE IF ~chain.descs[si].wo
          THEN ParseErr("UnexpectedReadOnlyDescriptor")
        ELSE IF chain.descs[si].len < 1
          THEN ParseErr("DescriptorLengthTooSmall")
        ELSE ParseOk(req_type, sec.v, chain.descs[di].addr,
                     chain.descs[di].len, chain.descs[si].addr, NoSeg)

\* Request::parse_read_write
ParseReadWrite(chain, gm, req_type) ==
    LET sec == Sector(gm, chain.descs[1].addr)
        di == NextDescriptor(chain, 1)
        si == IF di = 0 THEN 0 ELSE NextDescriptor(chain, di)
    IN  IF ~sec.ok THEN ParseErr(sec.err)
        ELSE IF di = 0 \/ si = 0 THEN ParseErr("DescriptorChainTooShort")
        ELSE IF chain.descs[di].wo /\ req_type = VIRTIO_BLK_T_OUT
          THEN ParseErr("UnexpectedWriteOnlyDescriptor")
        ELSE IF ~chain.descs[di].wo /\ req_type = VIRTIO_BLK_T_IN
          THEN ParseErr("UnexpectedReadOnlyDescriptor")
        ELSE IF ~chain.descs[si].wo
          THEN ParseErr("UnexpectedReadOnlyDescriptor")
        ELSE IF chain.descs[si].len < 1
          THEN ParseErr("DescriptorLengthTooSmall")
        ELSE ParseOk(req_type, sec.v, chain.descs[di].addr,
                     chain.descs[di].len, chain.descs[si].addr, NoSeg)

\* A parse that reads the request type of a write-only head as well.
ParseAnyHead(chain, gm) ==
    LET t == RequestType(gm, chain.descs[1].addr)
    IN  IF ~t.ok THEN ParseErr("GuestMemory")
        ELSE IF t.v = VIRTIO_BLK_T_FLUSH THEN ParseFlush(chain, gm)
        ELSE IF t.v \in {VIRTIO_BLK_T_DISCARD, VIRTIO_BLK_T_WRITE_ZEROES}
          THEN ParseDiscardWriteZeroes(chain, gm, t.v)
        ELSE ParseReadWrite(chain, gm, t.v)

\* Request::parse
Parse(chain, gm) ==
    IF chain.descs[1].wo THEN ParseErr("UnexpectedWriteOnlyDescriptor")
    ELSE LET t == RequestType(gm, chain.descs[1].addr)
         IN  IF ~t.ok THEN ParseErr("GuestMemory")
             ELSE IF t.v = VIRTIO_BLK_T_FLUSH THEN ParseFlush(chain, gm)
             ELSE IF t.v \in {VIRTIO_BLK_T_DISCARD, VIRTIO_BLK_T_WRITE_ZEROES}
               THEN ParseDiscardWriteZeroes(chain, gm, t.v)
             ELSE ParseReadWrite(chain, gm, t.v)

(***************************************************************************)
(* Request execution on the disk image (a file: seek, read_exact,          *)
(* write_all, write_zeroes, flush) and the flush timer.                    *)
(***************************************************************************)
\* The host failures a request may meet: none, a failing disk operation
\* (read, write, write_zeroes, flush), a failing timer operation.
Faults == {"none", "disk", "timer"}

\* disk.seek(SeekFrom::Start(off)) fails for an offset the file offset type
\* (a signed 64-bit number) cannot hold.
SeekFails(off) == 63 \in off.hibits

\* The offset lies beyond every byte the image can hold.
Far(off) == off.hibits # {}

ExecResult(res, len, disk, armed, gm) ==
    [ res |-> res, len |-> len, disk |-> disk, armed |-> armed, gm |-> gm ]

\* The IN arm: mem.read_to_memory(data_addr, disk, data_len), a read_exact
\* into guest memory; a read cut short by the end of the file has copied the
\* bytes there were.
ExecuteIn(req, off, disk, armed, gm, fault) ==
    LET n == req.data_len
        a == req.data_addr
    IN  IF a + n > GuestMemSize \/ fault = "disk"
          THEN ExecResult("Read", 0, disk, armed, gm)
        ELSE IF Far(off) \/ off.lo + n > RLen(disk)
          THEN ExecResult("Read", 0, disk, armed,
                          IF Far(off) THEN gm
                          ELSE RSplice(gm, a, RSlice(disk, off.lo, n)))
        ELSE ExecResult("Ok", n, disk, armed,
                        RSplice(gm, a, RSlice(disk, off.lo, n)))

\* The OUT arm without the arming of the flush timer.
ExecuteOutNoArm(req, off, disk, armed, gm, fault) ==
    LET n == req.data_len
        a == req.data_addr
        written == IF n = 0 THEN disk
                   ELSE RSplice(disk, off.lo, RSlice(gm, a, n))
    IN  IF a + n > GuestMemSize \/ fault = "disk" \/ Far(off)
          THEN ExecResult("Write", 0, disk, armed, gm)
        ELSE ExecResult("Ok", 0, written, armed, gm)

\* The OUT arm: mem.write_from_memory(data_addr, disk, data_len), a write_all
\* from guest memory, then the flush timer is armed unless it is already.
ExecuteOut(req, off, disk, armed, gm, fault) ==
    LET n == req.data_len
        a == req.data_addr
        written == IF n = 0 THEN disk
                   ELSE RSplice(disk, off.lo, RSlice(gm, a, n))
    IN  IF a + n > GuestMemSize \/ fault = "disk" \/ Far(off)
          THEN ExecResult("Write", 0, disk, armed, gm)
        ELSE IF fault = "timer"
          THEN ExecResult("ArmingTimer", 0, written, armed, gm)
        ELSE ExecResult("Ok", 0, written, TRUE, gm)

\* The DISCARD / WRITE_ZEROES arm.
ExecuteDiscardWriteZeroes(req, disk, armed, gm, fault) ==
    LET seg == req.discard_write_zeroes_seg
        valid_flags == IF req.request_type = VIRTIO_BLK_T_WRITE_ZEROES
                         THEN VIRTIO_BLK_DISCARD_WRITE_ZEROES_FLAG_UNMAP
                         ELSE 0
        off == U64Shl(seg.sector, SECTOR_SHIFT)
        len == seg.num_sectors * Pow2(SECTOR_SHIFT)
    IN  IF ~seg.some THEN ExecResult("Ok", 0, disk, armed, gm)
        ELSE IF seg.flags - BitAnd(seg.flags, valid_flags) # 0
          THEN ExecResult("DiscardWriteZeroes", 0, disk, armed, gm)
        ELSE IF SeekFails(off)
          THEN ExecResult("Seek", 0, disk, armed, gm)
        ELSE IF fault = "disk" \/ Far(off)
          THEN ExecResult("DiscardWriteZeroes", 0, disk, armed, gm)
        ELSE ExecResult("Ok", 0,
                        IF len = 0 THEN disk
                        ELSE RSplice(disk, off.lo, RFill(len, 0)),
                        armed, gm)

\* The FLUSH arm: disk.flush(), then flush_timer.clear().
ExecuteFlush(disk, armed, gm, fault) ==
    IF fault = "disk" THEN ExecResult("Flush", 0, disk, armed, gm)
    ELSE IF fault = "timer" THEN ExecResult("TimerFd", 0, disk, armed, gm)
    ELSE ExecResult("Ok", 0, disk, FALSE, gm)

\* Request::execute: the seek to sector << SECTOR_SHIFT comes first, for
\* every request type.
Execute(req, disk, armed, gm, fault) ==
    LET off == U64Shl(req.sector, SECTOR_SHIFT)
        t == req.request_type
    IN  IF SeekFails(off) THEN ExecResult("Seek", 0, disk, armed, gm)
        ELSE IF t = VIRTIO_BLK_T_IN
          THEN ExecuteIn(req, off, disk, armed, gm, fault)
        ELSE IF t = VIRTIO_BLK_T_OUT
          THEN ExecuteOut(req, off, disk, armed, gm, fault)
        ELSE IF t \in {VIRTIO_BLK_T_DISCARD, VIRTIO_BLK_T_WRITE_ZEROES}
          THEN ExecuteDiscardWriteZeroes(req, disk, armed, gm, fault)
        ELSE IF t = VIRTIO_BLK_T_FLUSH
          THEN ExecuteFlush(disk, armed, gm, fault)
        ELSE ExecResult("Unsupported", 0, disk, armed, gm)

\* ExecuteError::status
ExecuteErrorStatus(res) ==
    IF res = "Unsupported" THEN VIRTIO_BLK_S_UNSUPP ELSE VIRTIO_BLK_S_IOERR

(***************************************************************************)
(* Worker::process_queue on the chains of the available ring.              *)
(***************************************************************************)
\* The Err(e) arm of process_queue: the error is logged, len = 0.
OnParseError(gm, chain) == [ gm |-> gm, len |-> 0 ]

\* The last OUT request the worker executed, kept to compare a later IN with
\* it: its sector, length and bytes, whether a FLUSH followed, whether a
\* DISCARD or WRITE_ZEROES on its sectors followed.
NoOut ==
    [ valid |-> FALSE, sector |-> U64(0, {}), n |-> 0, data |-> << >>,
      flushed |-> FALSE, clobbered |-> FALSE ]

\* Sectors [s1, s1 + k1) and [s2, s2 + k2) have a sector in common.
SectorsOverlap(s1, k1, s2, k2) ==
    /\ s1.hibits = s2.hibits
    /\ s1.lo < s2.lo + k2
    /\ s2.lo < s1.lo + k1

SectorsOf(n) == (n + Pow2(SECTOR_SHIFT) - 1) \div Pow2(SECTOR_SHIFT)

NextLastOut(lo, req, res, gm) ==
    IF req.request_type = VIRTIO_BLK_T_OUT
      THEN IF res = "Ok"
             THEN [ valid |-> TRUE, sector |-> req.sector,
                    n |-> req.data_len,
                    data |-> RSlice(gm, req.data_addr, req.data_len),
                    flushed |-> FALSE, clobbered |-> FALSE ]
             ELSE NoOut
    ELSE IF req.request_type = VIRTIO_BLK_T_FLUSH /\ res = "Ok"
      THEN [ lo EXCEPT !.flushed = lo.valid ]
    ELSE IF /\ req.request_type \in {VIRTIO_BLK_T_DISCARD,
                                     VIRTIO_BLK_T_WRITE_ZEROES}
            /\ req.discard_write_zeroes_seg.some
            /\ SectorsOverlap(lo.sector, SectorsOf(lo.n),
                              req.discard_write_zeroes_seg.sector,
                              req.discard_write_zeroes_seg.num_sectors)
      THEN [ lo EXCEPT !.clobbered = TRUE ]
    ELSE lo

\* process_queue once the chain is parsed (p) and, if it parsed, executed
\* (e): the status byte is written at status_addr (unwrap: a failed write
\* panics) and (index, len) is noted for the used ring.
ProcessExecuted(st, entry, p, e) ==
    LET status == IF e.res = "Ok" THEN VIRTIO_BLK_S_OK
                  ELSE ExecuteErrorStatus(e.res)
        pe == OnParseError(st.gm, entry.chain)
        len == IF ~p.ok THEN pe.len
               ELSE IF e.res = "Ok" THEN e.len ELSE 1
        w == IF p.ok
               THEN WriteObjAtAddr(e.gm, p.req.status_addr, << status >>)
               ELSE [ ok |-> TRUE, gm |-> pe.gm ]
        r == [ entry |-> entry, parsed |-> p.ok, err |-> p.err,
               res |-> e.res, len |-> len,
               status |-> IF p.ok THEN status ELSE -1,
               disk_before |-> st.disk, disk_after |-> e.disk,
               gm_before |-> st.gm, gm_after |-> w.gm,
               last_out |-> st.last_out, panicked |-> ~w.ok ]
    IN  [ disk |-> e.disk, armed |-> e.armed, gm |-> w.gm,
          last_out |-> IF p.ok
                         THEN NextLastOut(st.last_out, p.req, e.res, st.gm)
                         ELSE st.last_out,
          heads |-> IF w.ok
                      THEN Append(st.heads,
                                  [ index |-> entry.chain.index, len |-> len ])
                      ELSE st.heads,
          results |-> Append(st.results, r),
          panicked |-> ~w.ok ]

\* process_queue once the chain is parsed: Ok(request) => request.execute.
ProcessParsed(st, entry, p) ==
    ProcessExecuted(st, entry, p,
                    IF p.ok
                      THEN Execute(p.req, st.disk, st.armed, st.gm,
                                   entry.fault)
                      ELSE ExecResult("none", 0, st.disk, st.armed, st.gm))

\* The body of the for loop of process_queue for one chain; a thread that
\* panicked runs no more of it.
ProcessChain(st, entry) ==
    IF st.panicked THEN st
    ELSE ProcessParsed(st, entry, Parse(entry.chain, st.gm))

RECURSIVE ProcessAvail(_, _)
\* for avail_desc in queue.iter(&self.mem) { ... }
ProcessAvail(avail, st) ==
    IF avail = << >> THEN st
    ELSE ProcessAvail(Tail(avail), ProcessChain(st, Head(avail)))

(***************************************************************************)
(* The guest driver's requests.  Each chain has a slot of guest memory:    *)
(* the 16-byte header, the data buffer (or the discard / write-zeroes      *)
(* segment) and the status byte.                                           *)
(***************************************************************************)
\* Largest number of chains the guest publishes before the worker runs.
MaxBatch == 2

SlotSize == 1024
HdrSize == 16
DataSize == 512

HdrAddr(slot) == slot * SlotSize
DataAddr(slot) == HdrAddr(slot) + HdrSize
StatusAddr(slot) == DataAddr(slot) + DataSize
\* Where the guest keeps the rings of the queue.
RingsAddr == 32768
\* An address past the end of guest memory.
OutsideAddr == GuestMemSize + HdrSize

\* Bytes of the image at construction, of a buffer the guest has not
\* written, of the data of an OUT request, of a status byte before the
\* device writes it.
DiskFill == 17
MemFill == 238
OutFill == 171
StatusFill == 255

\* A request type the device does not implement (VIRTIO_BLK_T_GET_ID).
UnsupportedType == 8

Types == { VIRTIO_BLK_T_IN, VIRTIO_BLK_T_OUT, VIRTIO_BLK_T_FLUSH,
           VIRTIO_BLK_T_DISCARD, VIRTIO_BLK_T_WRITE_ZEROES, UnsupportedType }

\* Sector numbers of request headers: 0, 1, 2^54 (shifted by 9 it has bit 63
\* set), 2^55 (shifted by 9 it is past bit 63).
Sectors == { U64(0, {}), U64(1, {}), U64(0, {54}), U64(0, {55}) }

\* The well-formed request of a type: a read-only head, the data descriptor
\* (write-only for IN), a write-only status descriptor of one byte.
BaseInput(t, sec, status_out) ==
    [ type |-> t, sector |-> sec, head_wo |-> FALSE, ndesc |-> 3,
      data_wo |-> (t = VIRTIO_BLK_T_IN),
      data_len |-> IF t \in {VIRTIO_BLK_T_DISCARD, VIRTIO_BLK_T_WRITE_ZEROES}
                     THEN SegSize ELSE DataSize,
      status_wo |-> TRUE, status_len |-> 1, status_out |-> status_out,
      seg_flags |-> 0, fault |-> "none" ]

BaseInputs ==
    { BaseInput(t, sec, so) : t \in Types, sec \in Sectors, so \in BOOLEAN }

\* The well-formed requests on sector 0 with their status byte in memory.
PlainInputs == { BaseInput(t, U64(0, {}), FALSE) : t \in Types }

\* The plain requests with one thing changed.
VariedInputs ==
    UNION { { [ b EXCEPT !.head_wo = TRUE ],
              [ b EXCEPT !.ndesc = 1 ],
              [ b EXCEPT !.ndesc = 2 ],
              [ b EXCEPT !.data_wo = ~b.data_wo ],
              [ b EXCEPT !.data_len = 1 ],
              [ b EXCEPT !.status_wo = FALSE ],
              [ b EXCEPT !.status_len = 0 ],
              [ b EXCEPT !.seg_flags = 1 ],
              [ b EXCEPT !.seg_flags = 2 ],
              [ b EXCEPT !.fault = "disk" ],
              [ b EXCEPT !.fault = "timer" ] } : b \in PlainInputs }

ChainInputs == BaseInputs \cup VariedInputs

\* The requests the guest adds behind a first one: the plain ones, and a read
\* whose status descriptor points outside guest memory.
TailInputs ==
    PlainInputs \cup { BaseInput(VIRTIO_BLK_T_IN, U64(0, {}), TRUE) }

\* The descriptors of a request placed in a slot: [head, status] for FLUSH,
\* [head, data, status] otherwise, cut to ndesc descriptors.
ChainOf(inp, slot) ==
    LET head == [ addr |-> HdrAddr(slot), len |-> HdrSize,
                  wo |-> inp.head_wo ]
        data == [ addr |-> DataAddr(slot), len |-> inp.data_len,
                  wo |-> inp.data_wo ]
        stat == [ addr |-> IF inp.status_out THEN OutsideAddr
                           ELSE StatusAddr(slot),
                  len |-> inp.status_len, wo |-> inp.status_wo ]
        all == IF inp.type = VIRTIO_BLK_T_FLUSH THEN << head, stat >>
               ELSE << head, data, stat >>
    IN  [ index |-> slot,
          descs |-> SubSeq(all, 1, Min(inp.ndesc, Len(all))) ]

\* Guest memory once the guest has written the request into its slot: the
\* header {type:u32, reserved:u32, sector:u64}, the data buffer or the
\* segment {sector:u64, num_sectors:u32, flags:u32} of one sector at sector
\* 0, the status byte.
GuestWrites(gm, inp, slot) ==
    LET hdr == LeBytes(inp.type, 4) \o Zeros(4) \o U64Bytes(inp.sector)
        seg == U64Bytes(U64(0, {})) \o LeBytes(1, 4)
                   \o LeBytes(inp.seg_flags, 4)
        data == IF inp.type \in {VIRTIO_BLK_T_DISCARD,
                                 VIRTIO_BLK_T_WRITE_ZEROES}
                  THEN ROfBytes(seg) \o RFill(DataSize - SegSize, MemFill)
                ELSE IF inp.type = VIRTIO_BLK_T_OUT
                  THEN RFill(DataSize, OutFill)
                ELSE RFill(DataSize, MemFill)
    IN  RSplice(gm, HdrAddr(slot),
                RNorm(ROfBytes(hdr) \o data \o RFill(1, StatusFill)))

InitGm == RFill(GuestMemSize, MemFill)

InitBlkState ==
    [ phase |-> "run", disk |-> RFill(Pow2(SECTOR_SHIFT), DiskFill),
      armed |-> FALSE, gm |-> InitGm, avail |-> << >>, used |-> << >>,
      results |-> << >>, last_out |-> NoOut, panicked |-> FALSE ]

\* The state of an activated device whose worker sits in its poll loop.
InitBlk ==
    /\ driver_status = ready_bits
    /\ queues = [i \in 1 .. Len(QUEUE_SIZES) |->
                    [ QueueNew(QUEUE_SIZES[i]) EXCEPT
                        !.ready = TRUE, !.desc_table = RingsAddr,
                        !.avail_ring = RingsAddr + 16 * QUEUE_SIZES[i],
                        !.used_ring = RingsAddr + 24 * QUEUE_SIZES[i] ]]
    /\ device_activated = TRUE
    /\ interrupt_status = 0
    /\ interrupt_evt = FALSE
    /\ mem = FALSE
    /\ queue_evts = 0
    /\ read_only = FALSE
    /\ avail_features = BlockAvailFeatures(read_only)
    /\ disk_size = Pow2(SECTOR_SHIFT)
    /\ kill_evt = TRUE
    /\ disk_image = FALSE
    /\ worker_pc = "poll"
    /\ workers_spawned = 1
    /\ activate_calls = 1
    /\ queue_evt_count = 0
    /\ kill_evt_count = 0
    /\ interrupt_evt_count = 0
    /\ avail_pending = 0
    /\ dropped = FALSE
    /\ last_bar = [ op |-> "write", region |-> "common", byte |-> 0,
                    called |-> TRUE ]
    /\ cfg = NoCall
    /\ blk = InitBlkState

\* The guest writes a request into the next slot and publishes its chain.
BlkGuestAddChain ==
    /\ ~blk.panicked
    /\ blk.results = << >>
    /\ Len(blk.avail) < MaxBatch
    /\ \E inp \in (IF blk.avail = << >> THEN ChainInputs ELSE TailInputs) :
          LET slot == Len(blk.avail)
          IN  blk' = [ blk EXCEPT
                         !.gm = GuestWrites(blk.gm, inp, slot),
                         !.avail = Append(@, [ inp |-> inp,
                                               chain |-> ChainOf(inp, slot),
                                               fault |-> inp.fault ]) ]
    /\ UNCHANGED << transportVars, blockVars, workerVars, eventVars, dropped,
                    cfg >>

\* The worker's view of the request state at the start of process_queue.
WorkerState(b) ==
    [ disk |-> b.disk, armed |-> b.armed, gm |-> b.gm,
      last_out |-> b.last_out, heads |-> << >>, results |-> << >>,
      panicked |-> FALSE ]

\* The end of process_queue: queue.add_used for every noted (index, len); a
\* thread that panicked in the loop has added none.
AddUsed(b, st) ==
    [ b EXCEPT !.disk = st.disk, !.armed = st.armed, !.gm = st.gm,
               !.last_out = st.last_out, !.avail = << >>,
               !.used = IF st.panicked THEN @ ELSE @ \o st.heads,
               !.results = st.results, !.panicked = st.panicked ]

\* Worker::process_queue(0): every available chain is parsed and executed,
\* then each gets its used entry.
BlkProcessQueue ==
    /\ ~blk.panicked
    /\ blk.avail # << >>
    /\ blk' = AddUsed(blk, ProcessAvail(blk.avail, WorkerState(blk)))
    /\ worker_pc' = IF blk'.panicked THEN "panicked" ELSE worker_pc
    /\ UNCHANGED << transportVars, blockVars, workers_spawned, activate_calls,
                    eventVars, dropped, cfg >>

\* The guest takes the used entries and gives its buffers back.
BlkGuestReap ==
    /\ ~blk.panicked
    /\ blk.results # << >>
    /\ blk' = [ blk EXCEPT !.results = << >>, !.used = << >>, !.gm = InitGm ]
    /\ UNCHANGED << transportVars, blockVars, workerVars, eventVars, dropped,
                    cfg >>

NextBlk ==
    \/ BlkGuestAddChain
    \/ BlkProcessQueue
    \/ BlkGuestReap

SpecBlk == InitBlk /\ [][NextBlk]_vars

(***************************************************************************)
(* Worker::run with its three poll tokens (the flush timer, the queue      *)
(* event, the kill event) around process_queue.                            *)
(***************************************************************************)
\* The worker thread is inside its 'poll loop.
WorkerLoop == worker_pc \in {"poll", "signal", "irq"}

\* The requests of the guest in this specification: a write, a flush, a
\* flush whose disk operation fails, a read, a read whose status descriptor
\* points outside guest memory, a chain with a write-only head.
RunInputs ==
    { BaseInput(VIRTIO_BLK_T_OUT, U64(0, {}), FALSE),
      BaseInput(VIRTIO_BLK_T_FLUSH, U64(0, {}), FALSE),
      [ BaseInput(VIRTIO_BLK_T_FLUSH, U64(0, {}), FALSE)
          EXCEPT !.fault = "disk" ],
      BaseInput(VIRTIO_BLK_T_IN, U64(0, {}), FALSE),
      BaseInput(VIRTIO_BLK_T_IN, U64(0, {}), TRUE),
      [ BaseInput(VIRTIO_BLK_T_IN, U64(0, {}), FALSE)
          EXCEPT !.head_wo = TRUE ] }

\* The requests the guest adds behind a first one.
RunTailInputs ==
    { BaseInput(VIRTIO_BLK_T_OUT, U64(0, {}), FALSE),
      BaseInput(VIRTIO_BLK_T_FLUSH, U64(0, {}), FALSE),
      BaseInput(VIRTIO_BLK_T_IN, U64(0, {}), TRUE) }

\* The worker's state next to the requests: whether the flush timer has
\* expired and is readable (tick), whether a successful OUT completed since
\* the last successful flush (dirty), the tokens the last wakeup handled.
InitRunState ==
    InitBlkState @@ [ tick |-> FALSE, dirty |-> FALSE, log |-> << >> ]

InitRun ==
    /\ driver_status = ready_bits
    /\ queues = [i \in 1 .. Len(QUEUE_SIZES) |->
                    [ QueueNew(QUEUE_SIZES[i]) EXCEPT
                        !.ready = TRUE, !.desc_table = RingsAddr,
                        !.avail_ring = RingsAddr + 16 * QUEUE_SIZES[i],
                        !.used_ring = RingsAddr + 24 * QUEUE_SIZES[i] ]]
    /\ device_activated = TRUE
    /\ interrupt_status = 0
    /\ interrupt_evt = FALSE
    /\ mem = FALSE
    /\ queue_evts = 0
    /\ read_only = FALSE
    /\ avail_features = BlockAvailFeatures(read_only)
    /\ disk_size = Pow2(SECTOR_SHIFT)
    /\ kill_evt = TRUE
    /\ disk_image = FALSE
    /\ worker_pc = "poll"
    /\ workers_spawned = 1
    /\ activate_calls = 1
    /\ queue_evt_count = 0
    /\ kill_evt_count = 0
    /\ interrupt_evt_count = 0
    /\ avail_pending = 0
    /\ dropped = FALSE
    /\ last_bar = [ op |-> "write", region |-> "common", byte |-> 0,
                    called |-> TRUE ]
    /\ cfg = NoCall
    /\ blk = InitRunState

\* The guest writes a request into the next slot and publishes its chain.
RunGuestAddChain ==
    /\ blk.results = << >>
    /\ blk.used = << >>
    /\ Len(blk.avail) < MaxBatch
    /\ \E inp \in (IF blk.avail = << >> THEN RunInputs ELSE RunTailInputs) :
          LET slot == Len(blk.avail)
          IN  blk' = [ blk EXCEPT
                         !.gm = GuestWrites(blk.gm, inp, slot),
                         !.avail = Append(@, [ inp |-> inp,
                                               chain |-> ChainOf(inp, slot),
                                               fault |-> inp.fault ]) ]
    /\ UNCHANGED << transportVars, blockVars, workerVars, eventVars, dropped,
                    cfg >>

\* The 60 s of the flush timer pass: the timer is no longer armed and its
\* descriptor is readable.
RunTimerExpire ==
    /\ WorkerLoop
    /\ blk.armed
    /\ blk' = [ blk EXCEPT !.armed = FALSE, !.tick = TRUE ]
    /\ UNCHANGED << transportVars, blockVars, workerVars, eventVars, dropped,
                    cfg >>

\* The tokens poll_ctx.wait() reports readable.
RunReadyTokens ==
    (IF blk.tick THEN {"FlushTimer"} ELSE {})
        \cup (IF queue_evt_count > 0 THEN {"QueueAvailable"} ELSE {})
        \cup (IF kill_evt_count > 0 THEN {"Kill"} ELSE {})

RECURSIVE DirtyAfter(_, _)
\* Whether a successful OUT completed since the last successful flush, after
\* the requests of a batch.
DirtyAfter(results, d) ==
    IF results = << >> THEN d
    ELSE LET r == Head(results)
             t == r.entry.inp.type
         IN  DirtyAfter(Tail(results),
                        IF r.parsed /\ r.res = "Ok" /\ t = VIRTIO_BLK_T_OUT
                          THEN TRUE
                        ELSE IF r.parsed /\ r.res = "Ok"
                                /\ t = VIRTIO_BLK_T_FLUSH
                          THEN FALSE
                        ELSE d)

\* A request of the batch set the timer anew: flush_timer.reset of a
\* successful OUT that found it not armed, flush_timer.clear of a FLUSH.
TimerSet(b, results) ==
    \E i \in 1 .. Len(results) :
        /\ results[i].parsed
        /\ results[i].res = "Ok"
        /\ results[i].entry.inp.type \in {VIRTIO_BLK_T_OUT, VIRTIO_BLK_T_FLUSH}

\* Token::FlushTimer with the result of the flush ignored.
OnFlushTimerIgnoreError(st, ok) ==
    [ st EXCEPT
        !.b = [ @ EXCEPT !.dirty = IF ok THEN FALSE ELSE @ ],
        !.log = Append(@, [ token |-> "FlushTimer", ok |-> ok,
                            armed_before |-> st.b.armed,
                            armed_after |-> st.b.armed,
                            used |-> 0, exit |-> FALSE ]) ]

\* Token::FlushTimer: self.disk_image.flush(); an error breaks 'poll.
OnFlushTimer(st, ok) ==
    [ st EXCEPT
        !.b = [ @ EXCEPT !.dirty = IF ok THEN FALSE ELSE @ ],
        !.exit = ~ok,
        !.log = Append(@, [ token |-> "FlushTimer", ok |-> ok,
                            armed_before |-> st.b.armed,
                            armed_after |-> st.b.armed,
                            used |-> 0, exit |-> ~ok ]) ]

\* Token::QueueAvailable once process_queue(0) has produced b: the queue
\* event was read, needs_interrupt |= used_count > 0.
OnQueueProcessed(st, b) ==
    [ st EXCEPT
        !.b = [ b EXCEPT !.dirty = DirtyAfter(b.results, st.b.dirty),
                         !.tick = st.b.tick /\ ~TimerSet(b, b.results) ],
        !.queue_evt = 0,
        !.needs_interrupt = @ \/ (~b.panicked /\ st.b.avail # << >>),
        !.exit = b.panicked,
        !.log = Append(@, [ token |-> "QueueAvailable", ok |-> ~b.panicked,
                            armed_before |-> st.b.armed,
                            armed_after |-> b.armed,
                            used |-> Len(b.used) - Len(st.b.used),
                            exit |-> b.panicked ]) ]

\* Token::QueueAvailable
OnQueueAvailable(st) ==
    OnQueueProcessed(st, AddUsed([ st.b EXCEPT !.results = << >> ],
                                 ProcessAvail(st.b.avail, WorkerState(st.b))))

\* Token::Kill => break 'poll
OnKill(st) ==
    [ st EXCEPT
        !.exit = TRUE,
        !.log = Append(@, [ token |-> "Kill", ok |-> TRUE,
                            armed_before |-> st.b.armed,
                            armed_after |-> st.b.armed,
                            used |-> 0, exit |-> TRUE ]) ]

RECURSIVE RunTokens(_, _, _)
\* for event in events.iter_readable() { match event.token() ... }: a break
\* of 'poll (or a panic) leaves the loop at once.
RunTokens(order, st, flush_ok) ==
    IF order = << >> \/ st.exit THEN st
    ELSE RunTokens(Tail(order),
                   IF Head(order) = "FlushTimer"
                     THEN OnFlushTimer(st, flush_ok)
                   ELSE IF Head(order) = "QueueAvailable"
                     THEN OnQueueAvailable(st)
                   ELSE OnKill(st),
                   flush_ok)

\* The end of one turn of 'poll with the state st the tokens left.
RunWakeEnd(st) ==
    /\ blk' = [ st.b EXCEPT !.log = st.log ]
    /\ queue_evt_count' = st.queue_evt
    /\ worker_pc' = IF st.b.panicked THEN "panicked"
                    ELSE IF st.exit THEN "exited"
                    ELSE IF st.needs_interrupt THEN "signal"
                    ELSE "poll"

\* One turn of the 'poll loop: wait, handle the readable events in the order
\* the poll context yields them, then leave the loop or go on to
\* signal_used_queue when needs_interrupt.
RunWake ==
    /\ worker_pc = "poll"
    /\ RunReadyTokens # {}
    /\ \E order \in Orders(RunReadyTokens), flush_ok \in BOOLEAN :
          \E st \in { RunTokens(order,
                                [ b |-> blk, needs_interrupt |-> FALSE,
                                  queue_evt |-> queue_evt_count,
                                  exit |-> FALSE, log |-> << >> ],
                                flush_ok) } :
              RunWakeEnd(st)
    /\ UNCHANGED << transportVars, blockVars, workers_spawned, activate_calls,
                    kill_evt_count, interrupt_evt_count, avail_pending,
                    dropped, cfg >>

\* The guest takes the used entries and gives its buffers back.
RunGuestReap ==
    /\ blk.results # << >> \/ blk.used # << >>
    /\ blk.avail = << >>
    /\ blk' = [ blk EXCEPT !.results = << >>, !.used = << >>, !.gm = InitGm,
                           !.log = << >> ]
    /\ UNCHANGED << transportVars, blockVars, workerVars, eventVars, dropped,
                    cfg >>

NextRun ==
    \/ RunGuestAddChain
    \/ QueueNotify
    \/ RunTimerExpire
    \/ Drop
    \/ RunWake
    \/ WorkerSignal
    \/ WorkerIrq
    \/ IrqfdConsume
    \/ RunGuestReap

SpecRun == InitRun /\ [][NextRun]_vars

(***************************************************************************)
(* Constants and bounds of the operations applied to given inputs.         *)
(***************************************************************************)
\* virtio_pci_device.rs: the size of the capability BAR.
CAPABILITY_BAR_SIZE == 16384

\* vm_control/src/lib.rs: message types and sizes; libc's ERANGE.
VM_REQUEST_TYPE_EXIT == 1
VM_REQUEST_TYPE_REGISTER_MEMORY == 2
VM_REQUEST_TYPE_UNREGISTER_MEMORY == 3
VM_REQUEST_TYPE_BALLOON_ADJUST == 4
VM_REQUEST_TYPE_ALLOCATE_AND_REGISTER_GPU_MEMORY == 5
VM_REQUEST_SIZE == 32
VM_RESPONSE_TYPE_OK == 1
VM_RESPONSE_TYPE_ERR == 2
VM_RESPONSE_TYPE_REGISTER_MEMORY == 3
VM_RESPONSE_TYPE_ALLOCATE_AND_REGISTER_GPU_MEMORY == 4
VM_RESPONSE_SIZE == 48
ERANGE == 34

\* Calls of allocate_irq made on one allocator.
MaxIrqCalls == 3
\* Largest number of capabilities the PCI configuration has room for.
MaxCapRoom == 5
\* How far a datagram goes past the size of a message.
MaxOversize == 2

(***************************************************************************)
(* Operations applied to given inputs: SystemAllocator::allocate_irq,      *)
(* VirtioPciDevice::allocate_io_bars and the VmRequest / VmResponse wire   *)
(* format of vm_control.  The call under way is the record cfg.            *)
(***************************************************************************)
\* Option<T>
None == [ some |-> FALSE ]
Some(x) == [ some |-> TRUE, v |-> x ]

\* A u32 as its two 16-bit halves: hi * 2^16 + lo.
U32(hi, lo) == [ hi |-> hi, lo |-> lo ]

\* u32::MAX
U32Max == U32(65535, 65535)

\* u32::checked_add(1)
CheckedAdd1(v) ==
    IF v.lo < 65535 THEN Some(U32(v.hi, v.lo + 1))
    ELSE IF v.hi < 65535 THEN Some(U32(v.hi + 1, 0))
    ELSE None

\* v - 1 for a u32 v >= 1
Sub1(v) == IF v.lo > 0 THEN U32(v.hi, v.lo - 1) ELSE U32(v.hi - 1, 65535)

\* SystemAllocator::allocate_irq returning the old next_irq.
AllocateIrqWrapping(next_irq) ==
    LET sum == CheckedAdd1(next_irq)
    IN  IF sum.some
          THEN [ next_irq |-> sum.v, result |-> Some(Sub1(sum.v)) ]
        ELSE [ next_irq |-> U32(0, 0), result |-> Some(next_irq) ]

\* SystemAllocator::allocate_irq: the new next_irq and the value returned.
AllocateIrq(next_irq) ==
    LET sum == CheckedAdd1(next_irq)
    IN  IF sum.some
          THEN [ next_irq |-> sum.v, result |-> Some(Sub1(sum.v)) ]
        ELSE [ next_irq |-> next_irq, result |-> None ]

\* The values of first_irq the allocators are built with.
FirstIrqs ==
    { U32(0, 0), U32(0, 5), U32(0, 65534), U32(0, 65535), U32(1, 0),
      U32(32767, 65535), U32(65535, 0), U32(65535, 65533),
      U32(65535, 65534), U32(65535, 65535) }

\* SystemAllocator::new(..., first_irq)
SystemAllocatorNew ==
    /\ cfg = NoCall
    /\ \E f \in FirstIrqs :
          cfg' = [ op |-> "allocator", first_irq |-> f, next_irq |-> f,
                   results |-> << >> ]
    /\ UNCHANGED << transportVars, blockVars, workerVars, eventVars, dropped,
                    blk >>

\* allocator.allocate_irq()
AllocateIrqCall ==
    /\ cfg.op = "allocator"
    /\ Len(cfg.results) < MaxIrqCalls
    /\ LET r == AllocateIrq(cfg.next_irq)
       IN  cfg' = [ cfg EXCEPT !.next_irq = r.next_irq,
                               !.results = Append(@, r.result) ]
    /\ UNCHANGED << transportVars, blockVars, workerVars, eventVars, dropped,
                    blk >>

\* The PCI capabilities add_pci_capabilities builds, in its order.
PciCapabilityTypes ==
    << "CommonConfig", "IsrConfig", "DeviceConfig", "NotifyConfig",
       "PciConfig" >>

\* VirtioPciDevice::add_pci_capabilities(settings_bar) on a configuration
\* space with room for `room` more capabilities: add_capability gives None
\* once the space is full, and the result for the notify capability is
\* unwrapped.
AddPciCapabilities(dev, settings_bar, room) ==
    LET added == [ i \in 1 .. Min(room, Len(PciCapabilityTypes)) |->
                     [ type |-> PciCapabilityTypes[i],
                       bar |-> IF PciCapabilityTypes[i] = "PciConfig"
                                 THEN 0 ELSE settings_bar ] ]
    IN  IF room < 4
          THEN [ dev EXCEPT !.caps = @ \o added, !.panicked = TRUE ]
        ELSE [ dev EXCEPT !.caps = @ \o added,
                          !.settings_bar = settings_bar ]

\* allocate_io_bars adding the capabilities before the BAR is registered.
AllocateIoBarsCapsFirst(dev, mmio, bar, room) ==
    IF ~mmio.some
      THEN [ dev |-> dev,
             result |-> [ ok |-> FALSE, err |-> "IoAllocationFailed",
                          arg |-> CAPABILITY_BAR_SIZE ] ]
    ELSE IF ~bar.some
      THEN [ dev |-> AddPciCapabilities(dev, 0, room),
             result |-> [ ok |-> FALSE, err |-> "IoRegistrationFailed",
                          arg |-> mmio.v ] ]
    ELSE LET d == AddPciCapabilities(
                      [ dev EXCEPT !.bars = Append(@, << bar.v, mmio.v >>) ],
                      bar.v % 256, room)
         IN  [ dev |-> d,
               result |-> IF d.panicked THEN [ ok |-> FALSE, err |-> "panic" ]
                          ELSE [ ok |-> TRUE,
                                 ranges |-> << << mmio.v,
                                                  CAPABILITY_BAR_SIZE >> >> ] ]

\* VirtioPciDevice::allocate_io_bars with the answers of
\* resources.allocate_mmio_addresses (mmio) and of
\* config_regs.add_memory_region (bar): the device afterwards and the value
\* returned.
AllocateIoBars(dev, mmio, bar, room) ==
    IF ~mmio.some
      THEN [ dev |-> dev,
             result |-> [ ok |-> FALSE, err |-> "IoAllocationFailed",
                          arg |-> CAPABILITY_BAR_SIZE ] ]
    ELSE IF ~bar.some
      THEN [ dev |-> dev,
             result |-> [ ok |-> FALSE, err |-> "IoRegistrationFailed",
                          arg |-> mmio.v ] ]
    ELSE LET d == AddPciCapabilities(
                      [ dev EXCEPT !.bars = Append(@, << bar.v, mmio.v >>) ],
                      bar.v % 256, room)
         IN  [ dev |-> d,
               result |-> IF d.panicked THEN [ ok |-> FALSE, err |-> "panic" ]
                          ELSE [ ok |-> TRUE,
                                 ranges |-> << << mmio.v,
                                                  CAPABILITY_BAR_SIZE >> >> ] ]

\* VirtioPciDevice::new: settings_bar 0, a configuration without BARs or
\* capabilities.
NewPciDevice ==
    [ settings_bar |-> 0, caps |-> << >>, bars |-> << >>,
      panicked |-> FALSE ]

\* The addresses the MMIO allocator hands out (multiples of the BAR size).
MmioAddrs == { k * CAPABILITY_BAR_SIZE : k \in {1, 2, 16384, 131071} }

\* device.allocate_io_bars(&mut resources)
AllocateIoBarsCall ==
    /\ cfg = NoCall
    /\ \E mmio \in {None} \cup { Some(a) : a \in MmioAddrs },
          bar \in {None} \cup { Some(i) : i \in 0 .. 5 },
          room \in 0 .. MaxCapRoom :
          LET r == AllocateIoBars(NewPciDevice, mmio, bar, room)
          IN  cfg' = [ op |-> "allocate_io_bars", mmio |-> mmio, bar |-> bar,
                       room |-> room, before |-> NewPciDevice,
                       after |-> r.dev, result |-> r.result ]
    /\ UNCHANGED << transportVars, blockVars, workerVars, eventVars, dropped,
                    blk >>

\* A u64 (and a usize) as its two u32 halves.
U64Halves(hi, lo) == [ hi |-> hi, lo |-> lo ]

\* i32::MIN
I32Min == -2147483647 - 1

\* `as u32` of an i32 and `as i32` of a u32 (two's complement).
I32AsU32(p) == U32((p \div 65536) % 65536, p % 65536)
U32AsI32(v) ==
    IF v.hi >= 32768 THEN (v.hi - 65536) * 65536 + v.lo
    ELSE v.hi * 65536 + v.lo

\* Le32::from / Le32::to_native, Le64::from / Le64::to_native: the four or
\* eight bytes of the value, least significant first.
Le32From(v) == LeBytes(v.lo, 2) \o LeBytes(v.hi, 2)
Le32ToNative(bs) ==
    U32(LeValue(SubSeq(bs, 3, 4)), LeValue(SubSeq(bs, 1, 2)))
Le64From(v) == Le32From(v.lo) \o Le32From(v.hi)
Le64ToNative(bs) ==
    U64Halves(Le32ToNative(SubSeq(bs, 5, 8)), Le32ToNative(SubSeq(bs, 1, 4)))

\* VmControlResult<T>
Ok(x) == [ ok |-> TRUE, v |-> x ]
Err(e) == [ ok |-> FALSE, err |-> e ]
BadSize(n) == [ ok |-> FALSE, err |-> "BadSize", read |-> n ]

\* The open files behind the raw descriptors of the sending process.
FileOf(raw) == IF raw = 3 THEN "shm" ELSE "gpu_buffer"
Fd(raw) == [ raw |-> raw, file |-> FileOf(raw) ]

\* ScmSocket::send_with_fds(buf, fds): one datagram with the bytes and the
\* file of the descriptor, if one is passed.
SendWithFds(buf, fds) ==
    [ bytes |-> buf,
      file |-> IF fds = << >> THEN None ELSE Some(FileOf(fds[1])) ]

\* ScmSocket::recv_with_fd(&mut buf) with a buffer of size bytes: the count
\* of bytes read into the buffer (a longer datagram is cut to the buffer),
\* the buffer, and the file received under a new descriptor.
RecvWithFd(dgram, size, new_raw) ==
    LET read == Min(Len(dgram.bytes), size)
    IN  [ read |-> read,
          buf |-> [ i \in 1 .. size |->
                      IF i <= read THEN dgram.bytes[i] ELSE 0 ],
          file |-> IF dgram.file.some
                     THEN Some([ raw |-> new_raw, file |-> dgram.file.v ])
                   ELSE None ]

\* VmRequestStruct::default()
VmRequestStructDefault ==
    [ type_ |-> U32(0, 0), slot |-> U32(0, 0),
      size |-> U64Halves(U32(0, 0), U32(0, 0)), num_pages |-> U32(0, 0),
      width |-> U32(0, 0), height |-> U32(0, 0), format |-> U32(0, 0) ]

\* buf.get_ref(0).store(req) and buf.get_ref(0).load() of a VmRequestStruct
\* (repr(C): type_ at 0, slot at 4, size at 8, num_pages at 16, width at 20,
\* height at 24, format at 28).
StoreRequest(req) ==
    Le32From(req.type_) \o Le32From(req.slot) \o Le64From(req.size)
        \o Le32From(req.num_pages) \o Le32From(req.width)
        \o Le32From(req.height) \o Le32From(req.format)
LoadRequest(buf) ==
    [ type_ |-> Le32ToNative(SubSeq(buf, 1, 4)),
      slot |-> Le32ToNative(SubSeq(buf, 5, 8)),
      size |-> Le64ToNative(SubSeq(buf, 9, 16)),
      num_pages |-> Le32ToNative(SubSeq(buf, 17, 20)),
      width |-> Le32ToNative(SubSeq(buf, 21, 24)),
      height |-> Le32ToNative(SubSeq(buf, 25, 28)),
      format |-> Le32ToNative(SubSeq(buf, 29, 32)) ]

\* VmRequest::send: its result and the datagram it puts on the socket.
VmRequestSend(r) ==
    LET d == VmRequestStructDefault
        sent(req, fds) == [ result |-> Ok("unit"),
                            dgram |-> Some(SendWithFds(StoreRequest(req),
                                                       fds)) ]
    IN  IF r.variant = "Exit"
          THEN sent([ d EXCEPT !.type_ = U32(0, VM_REQUEST_TYPE_EXIT) ],
                    << >>)
        ELSE IF r.variant = "RegisterMemory"
          THEN sent([ d EXCEPT
                        !.type_ = U32(0, VM_REQUEST_TYPE_REGISTER_MEMORY),
                        !.size = r.size ],
                    << r.fd.raw >>)
        ELSE IF r.variant = "UnregisterMemory"
          THEN sent([ d EXCEPT
                        !.type_ = U32(0, VM_REQUEST_TYPE_UNREGISTER_MEMORY),
                        !.slot = r.slot ],
                    << >>)
        ELSE IF r.variant = "BalloonAdjust"
          THEN sent([ d EXCEPT
                        !.type_ = U32(0, VM_REQUEST_TYPE_BALLOON_ADJUST),
                        !.num_pages = I32AsU32(r.pages) ],
                    << >>)
        ELSE IF r.variant = "AllocateAndRegisterGpuMemory"
          THEN sent([ d EXCEPT
                        !.type_ =
                          U32(0,
                              VM_REQUEST_TYPE_ALLOCATE_AND_REGISTER_GPU_MEMORY),
                        !.width = r.width, !.height = r.height,
                        !.format = r.format ],
                    << >>)
        ELSE [ result |-> Err("InvalidType"), dgram |-> None ]

\* VmRequest::recv keeping the low 32 bits of the size only.
VmRequestRecvSize32(dgram, new_raw) ==
    LET r == RecvWithFd(dgram, VM_REQUEST_SIZE, new_raw)
        req == LoadRequest(r.buf)
        t == req.type_
    IN  IF r.read # VM_REQUEST_SIZE THEN BadSize(r.read)
        ELSE IF t = U32(0, VM_REQUEST_TYPE_EXIT)
          THEN Ok([ variant |-> "Exit" ])
        ELSE IF t = U32(0, VM_REQUEST_TYPE_REGISTER_MEMORY)
          THEN IF r.file.some
                 THEN Ok([ variant |-> "RegisterMemory", fd |-> r.file.v,
                           size |-> U64Halves(U32(0, 0), req.size.lo) ])
               ELSE Err("ExpectFd")
        ELSE IF t = U32(0, VM_REQUEST_TYPE_UNREGISTER_MEMORY)
          THEN Ok([ variant |-> "UnregisterMemory", slot |-> req.slot ])
        ELSE IF t = U32(0, VM_REQUEST_TYPE_BALLOON_ADJUST)
          THEN Ok([ variant |-> "BalloonAdjust",
                    pages |-> U32AsI32(req.num_pages) ])
        ELSE IF t = U32(0, VM_REQUEST_TYPE_ALLOCATE_AND_REGISTER_GPU_MEMORY)
          THEN Ok([ variant |-> "AllocateAndRegisterGpuMemory",
                    width |-> req.width, height |-> req.height,
                    format |-> req.format ])
        ELSE Err("InvalidType")

\* VmRequest::recv on the next datagram of the socket.
VmRequestRecv(dgram, new_raw) ==
    LET r == RecvWithFd(dgram, VM_REQUEST_SIZE, new_raw)
        req == LoadRequest(r.buf)
        t == req.type_
    IN  IF r.read # VM_REQUEST_SIZE THEN BadSize(r.read)
        ELSE IF t = U32(0, VM_REQUEST_TYPE_EXIT)
          THEN Ok([ variant |-> "Exit" ])
        ELSE IF t = U32(0, VM_REQUEST_TYPE_REGISTER_MEMORY)
          THEN IF r.file.some
                 THEN Ok([ variant |-> "RegisterMemory", fd |-> r.file.v,
                           size |-> req.size ])
               ELSE Err("ExpectFd")
        ELSE IF t = U32(0, VM_REQUEST_TYPE_UNREGISTER_MEMORY)
          THEN Ok([ variant |-> "UnregisterMemory", slot |-> req.slot ])
        ELSE IF t = U32(0, VM_REQUEST_TYPE_BALLOON_ADJUST)
          THEN Ok([ variant |-> "BalloonAdjust",
                    pages |-> U32AsI32(req.num_pages) ])
        ELSE IF t = U32(0, VM_REQUEST_TYPE_ALLOCATE_AND_REGISTER_GPU_MEMORY)
          THEN Ok([ variant |-> "AllocateAndRegisterGpuMemory",
                    width |-> req.width, height |-> req.height,
                    format |-> req.format ])
        ELSE Err("InvalidType")

\* VmResponseStruct::default()
VmResponseStructDefault ==
    [ type_ |-> U32(0, 0), errno |-> U32(0, 0),
      pfn |-> U64Halves(U32(0, 0), U32(0, 0)), slot |-> U32(0, 0),
      stride |-> << U32(0, 0), U32(0, 0), U32(0, 0) >>,
      offset |-> << U32(0, 0), U32(0, 0), U32(0, 0) >> ]

\* buf.get_ref(0).store(resp) and buf.get_ref(0).load() of a
\* VmResponseStruct (repr(C): type_ at 0, errno at 4, pfn at 8, slot at 16,
\* stride0..2 at 20, offset0..2 at 32, and four bytes of padding, whose
\* content is pad, up to the size of 48).
StoreResponse(resp, pad) ==
    Le32From(resp.type_) \o Le32From(resp.errno) \o Le64From(resp.pfn)
        \o Le32From(resp.slot)
        \o Le32From(resp.stride[1]) \o Le32From(resp.stride[2])
        \o Le32From(resp.stride[3])
        \o Le32From(resp.offset[1]) \o Le32From(resp.offset[2])
        \o Le32From(resp.offset[3])
        \o [ i \in 1 .. 4 |-> pad ]
LoadResponse(buf) ==
    [ type_ |-> Le32ToNative(SubSeq(buf, 1, 4)),
      errno |-> Le32ToNative(SubSeq(buf, 5, 8)),
      pfn |-> Le64ToNative(SubSeq(buf, 9, 16)),
      slot |-> Le32ToNative(SubSeq(buf, 17, 20)),
      stride |-> << Le32ToNative(SubSeq(buf, 21, 24)),
                    Le32ToNative(SubSeq(buf, 25, 28)),
                    Le32ToNative(SubSeq(buf, 29, 32)) >>,
      offset |-> << Le32ToNative(SubSeq(buf, 33, 36)),
                    Le32ToNative(SubSeq(buf, 37, 40)),
                    Le32ToNative(SubSeq(buf, 41, 44)) >> ]

\* i32::checked_abs().unwrap_or(ERANGE)
CheckedAbsOrErange(e) ==
    IF e = I32Min THEN ERANGE ELSE IF e < 0 THEN -e ELSE e

\* VmResponse::send storing the errno as it is.
VmResponseSendRawErrno(r, pad) ==
    LET d == VmResponseStructDefault
        sent(resp, fds) == [ result |-> Ok("unit"),
                             dgram |-> Some(SendWithFds(
                                            StoreResponse(resp, pad), fds)) ]
    IN  IF r.variant = "Ok"
          THEN sent([ d EXCEPT !.type_ = U32(0, VM_RESPONSE_TYPE_OK) ],
                    << >>)
        ELSE IF r.variant = "Err"
          THEN sent([ d EXCEPT
                        !.type_ = U32(0, VM_RESPONSE_TYPE_ERR),
                        !.errno = I32AsU32(r.errno) ],
                    << >>)
        ELSE IF r.variant = "RegisterMemory"
          THEN sent([ d EXCEPT
                        !.type_ = U32(0, VM_RESPONSE_TYPE_REGISTER_MEMORY),
                        !.pfn = r.pfn, !.slot = r.slot ],
                    << >>)
        ELSE sent([ d EXCEPT
                      !.type_ =
                        U32(0,
                            VM_RESPONSE_TYPE_ALLOCATE_AND_REGISTER_GPU_MEMORY),
                      !.pfn = r.pfn, !.slot = r.slot,
                      !.stride = [ i \in 1 .. 3 |-> r.desc[i].stride ],
                      !.offset = [ i \in 1 .. 3 |-> r.desc[i].offset ] ],
                  << r.fd.raw >>)

\* VmResponse::send: its result and the datagram it puts on the socket.
VmResponseSend(r, pad) ==
    LET d == VmResponseStructDefault
        sent(resp, fds) == [ result |-> Ok("unit"),
                             dgram |-> Some(SendWithFds(
                                            StoreResponse(resp, pad), fds)) ]
    IN  IF r.variant = "Ok"
          THEN sent([ d EXCEPT !.type_ = U32(0, VM_RESPONSE_TYPE_OK) ],
                    << >>)
        ELSE IF r.variant = "Err"
          THEN sent([ d EXCEPT
                        !.type_ = U32(0, VM_RESPONSE_TYPE_ERR),
                        !.errno = I32AsU32(CheckedAbsOrErange(r.errno)) ],
                    << >>)
        ELSE IF r.variant = "RegisterMemory"
          THEN sent([ d EXCEPT
                        !.type_ = U32(0, VM_RESPONSE_TYPE_REGISTER_MEMORY),
                        !.pfn = r.pfn, !.slot = r.slot ],
                    << >>)
        ELSE sent([ d EXCEPT
                      !.type_ =
                        U32(0,
                            VM_RESPONSE_TYPE_ALLOCATE_AND_REGISTER_GPU_MEMORY),
                      !.pfn = r.pfn, !.slot = r.slot,
                      !.stride = [ i \in 1 .. 3 |-> r.desc[i].stride ],
                      !.offset = [ i \in 1 .. 3 |-> r.desc[i].offset ] ],
                  << r.fd.raw >>)

\* VmResponse::recv on the next datagram of the socket.
VmResponseRecv(dgram, new_raw) ==
    LET r == RecvWithFd(dgram, VM_RESPONSE_SIZE, new_raw)
        resp == LoadResponse(r.buf)
        t == resp.type_
    IN  IF r.read # VM_RESPONSE_SIZE THEN BadSize(r.read)
        ELSE IF t = U32(0, VM_RESPONSE_TYPE_OK)
          THEN Ok([ variant |-> "Ok" ])
        ELSE IF t = U32(0, VM_RESPONSE_TYPE_ERR)
          THEN Ok([ variant |-> "Err", errno |-> U32AsI32(resp.errno) ])
        ELSE IF t = U32(0, VM_RESPONSE_TYPE_REGISTER_MEMORY)
          THEN Ok([ variant |-> "RegisterMemory", pfn |-> resp.pfn,
                    slot |-> resp.slot ])
        ELSE IF t = U32(0, VM_RESPONSE_TYPE_ALLOCATE_AND_REGISTER_GPU_MEMORY)
          THEN IF r.file.some
                 THEN Ok([ variant |-> "AllocateAndRegisterGpuMemory",
                           fd |-> r.file.v, pfn |-> resp.pfn,
                           slot |-> resp.slot,
                           desc |-> [ i \in 1 .. 3 |->
                                        [ stride |-> resp.stride[i],
                                          offset |-> resp.offset[i] ] ] ])
               ELSE Err("ExpectFd")
        ELSE Err("InvalidType")

\* The requests and the responses sent in this specification.
U32Vals == { U32(0, 0), U32(0, 77), U32(1, 0), U32(65535, 65535) }
U64Vals ==
    { U64Halves(U32(0, 0), U32(0, 4096)), U64Halves(U32(1, 0), U32(0, 0)),
      U64Halves(U32(65535, 65535), U32(65535, 65535)) }
I32Vals == { I32Min, -65536, -1, 0, 1, 34, 65535, 2147483647 }
Requests ==
    { [ variant |-> "Exit" ] }
      \cup { [ variant |-> "RegisterMemory", fd |-> Fd(raw), size |-> s ] :
               raw \in {3, 4}, s \in U64Vals }
      \cup { [ variant |-> "UnregisterMemory", slot |-> s ] : s \in U32Vals }
      \cup { [ variant |-> "BalloonAdjust", pages |-> p ] : p \in I32Vals }
      \cup { [ variant |-> "AllocateAndRegisterGpuMemory", width |-> w,
               height |-> h, format |-> U32(12889, 21080) ] :
               w \in U32Vals, h \in U32Vals }
      \cup { [ variant |-> "RegisterIrqfd", irq |-> U32(0, 5) ] }
Planes ==
    { << [ stride |-> U32(0, 0), offset |-> U32(0, 0) ],
         [ stride |-> U32(0, 0), offset |-> U32(0, 0) ],
         [ stride |-> U32(0, 0), offset |-> U32(0, 0) ] >>,
      << [ stride |-> U32(0, 32), offset |-> U32(0, 84) ],
         [ stride |-> U32(0, 48), offset |-> U32(0, 96) ],
         [ stride |-> U32(0, 64), offset |-> U32(0, 112) ] >>,
      << [ stride |-> U32(65535, 65535), offset |-> U32(1, 0) ],
         [ stride |-> U32(0, 1), offset |-> U32(65535, 0) ],
         [ stride |-> U32(256, 2), offset |-> U32(0, 65535) ] >> }
Responses ==
    { [ variant |-> "Ok" ] }
      \cup { [ variant |-> "Err", errno |-> e ] : e \in I32Vals }
      \cup { [ variant |-> "RegisterMemory", pfn |-> p, slot |-> s ] :
               p \in U64Vals, s \in U32Vals }
      \cup { [ variant |-> "AllocateAndRegisterGpuMemory", fd |-> Fd(raw),
               pfn |-> p, slot |-> U32(0, 66), desc |-> d ] :
               raw \in {3, 4}, p \in U64Vals, d \in Planes }

\* The lengths of the datagrams a peer sends that does not speak the
\* protocol, and their first byte.
RawLens ==
    { 0, 7, VM_REQUEST_SIZE - 1, VM_REQUEST_SIZE, VM_RESPONSE_SIZE - 1,
      VM_RESPONSE_SIZE }
      \cup { VM_REQUEST_SIZE + k : k \in 1 .. MaxOversize }
      \cup { VM_RESPONSE_SIZE + k : k \in 1 .. MaxOversize }
RawTypes == 0 .. 6 \cup {12}

\* request.send(&s)
VmRequestSendCall ==
    /\ cfg = NoCall
    /\ \E r \in Requests :
          LET s == VmRequestSend(r)
          IN  cfg' = [ op |-> "socket", kind |-> "request", sent |-> r,
                       send_result |-> s.result, dgram |-> s.dgram ]
    /\ UNCHANGED << transportVars, blockVars, workerVars, eventVars, dropped,
                    blk >>

\* response.send(&s)
VmResponseSendCall ==
    /\ cfg = NoCall
    /\ \E r \in Responses, pad \in {0, 170} :
          LET s == VmResponseSend(r, pad)
          IN  cfg' = [ op |-> "socket", kind |-> "response", sent |-> r,
                       send_result |-> s.result, dgram |-> s.dgram ]
    /\ UNCHANGED << transportVars, blockVars, workerVars, eventVars, dropped,
                    blk >>

\* s.send_with_fds(bytes, fds) by a peer with bytes of its own making.
PeerSendRaw ==
    /\ cfg = NoCall
    /\ \E n \in RawLens, t \in RawTypes, fill \in {0, 12}, raw \in {0, 3} :
          cfg' = [ op |-> "socket", kind |-> "raw", sent |-> None,
                   send_result |-> Ok("unit"),
                   dgram |-> Some(SendWithFds(
                                  [ i \in 1 .. n |-> IF i = 1 THEN t
                                                     ELSE fill ],
                                  IF raw = 0 THEN << >> ELSE << raw >>)) ]
    /\ UNCHANGED << transportVars, blockVars, workerVars, eventVars, dropped,
                    blk >>

\* s.shutdown(Shutdown::Both): a receive returns at once with no data.
PeerShutdown ==
    /\ cfg = NoCall
    /\ cfg' = [ op |-> "socket", kind |-> "shutdown", sent |-> None,
                send_result |-> Ok("unit"),
                dgram |-> Some(SendWithFds(<< >>, << >>)) ]
    /\ UNCHANGED << transportVars, blockVars, workerVars, eventVars, dropped,
                    blk >>

\* VmRequest::recv(&s)
VmRequestRecvCall ==
    /\ cfg.op = "socket"
    /\ cfg.dgram.some
    /\ \E new_raw \in {5, 6} :
          cfg' = [ op |-> "recv", recv |-> "request", kind |-> cfg.kind,
                   sent |-> cfg.sent, dgram |-> cfg.dgram.v,
                   result |-> VmRequestRecv(cfg.dgram.v, new_raw) ]
    /\ UNCHANGED << transportVars, blockVars, workerVars, eventVars, dropped,
                    blk >>

\* VmResponse::recv(&s)
VmResponseRecvCall ==
    /\ cfg.op = "socket"
    /\ cfg.dgram.some
    /\ \E new_raw \in {5, 6} :
          cfg' = [ op |-> "recv", recv |-> "response", kind |-> cfg.kind,
                   sent |-> cfg.sent, dgram |-> cfg.dgram.v,
                   result |-> VmResponseRecv(cfg.dgram.v, new_raw) ]
    /\ UNCHANGED << transportVars, blockVars, workerVars, eventVars, dropped,
                    blk >>

\* VmRequest::execute without the assignment of true to running.
VmRequestExecuteKeepRunning(r, running, host_ok) ==
    LET failed == [ variant |-> "Err", errno |-> ERANGE ]
    IN  IF r.variant = "Exit"
          THEN [ running |-> FALSE, resp |-> [ variant |-> "Ok" ] ]
        ELSE IF ~host_ok THEN [ running |-> running, resp |-> failed ]
        ELSE IF r.variant = "RegisterMemory"
          THEN [ running |-> running,
                 resp |-> [ variant |-> "RegisterMemory",
                            pfn |-> U64Halves(U32(0, 0), U32(0, 55)),
                            slot |-> U32(0, 66) ] ]
        ELSE IF r.variant = "AllocateAndRegisterGpuMemory"
          THEN [ running |-> running,
                 resp |-> [ variant |-> "AllocateAndRegisterGpuMemory",
                            fd |-> Fd(4),
                            pfn |-> U64Halves(U32(0, 0), U32(0, 55)),
                            slot |-> U32(0, 66),
                            desc |-> CHOOSE d \in Planes : TRUE ] ]
        ELSE [ running |-> running, resp |-> [ variant |-> "Ok" ] ]

\* VmRequest::execute(vm, sys_allocator, running, balloon_host_socket):
\* running afterwards and the response; host_ok tells whether the
\* operations on the hypervisor, the allocators and the balloon socket
\* succeed.
VmRequestExecute(r, running, host_ok) ==
    LET failed == [ variant |-> "Err", errno |-> ERANGE ]
    IN  IF r.variant = "Exit"
          THEN [ running |-> FALSE, resp |-> [ variant |-> "Ok" ] ]
        ELSE IF ~host_ok THEN [ running |-> TRUE, resp |-> failed ]
        ELSE IF r.variant = "RegisterMemory"
          THEN [ running |-> TRUE,
                 resp |-> [ variant |-> "RegisterMemory",
                            pfn |-> U64Halves(U32(0, 0), U32(0, 55)),
                            slot |-> U32(0, 66) ] ]
        ELSE IF r.variant = "AllocateAndRegisterGpuMemory"
          THEN [ running |-> TRUE,
                 resp |-> [ variant |-> "AllocateAndRegisterGpuMemory",
                            fd |-> Fd(4),
                            pfn |-> U64Halves(U32(0, 0), U32(0, 55)),
                            slot |-> U32(0, 66),
                            desc |-> CHOOSE d \in Planes : TRUE ] ]
        ELSE [ running |-> TRUE, resp |-> [ variant |-> "Ok" ] ]

\* request.execute(&mut vm, &mut allocator, &mut running, &balloon_socket)
VmRequestExecuteCall ==
    /\ cfg = NoCall
    /\ \E r \in Requests \cup { [ variant |-> "RegisterIoevent",
                                  datamatch |-> U32(0, 0) ] },
          running \in BOOLEAN, host_ok \in BOOLEAN :
          LET e == VmRequestExecute(r, running, host_ok)
          IN  cfg' = [ op |-> "execute", request |-> r,
                       running_before |-> running, host_ok |-> host_ok,
                       running |-> e.running, resp |-> e.resp ]
    /\ UNCHANGED << transportVars, blockVars, workerVars, eventVars, dropped,
                    blk >>

\* No device is under way in this specification: only cfg changes.
InitApi ==
    /\ driver_status = 0
    /\ queues = [i \in 1 .. Len(QUEUE_SIZES) |-> QueueNew(QUEUE_SIZES[i])]
    /\ device_activated = FALSE
    /\ interrupt_status = 0
    /\ interrupt_evt = FALSE
    /\ mem = FALSE
    /\ queue_evts = Len(QUEUE_SIZES)
    /\ read_only = FALSE
    /\ avail_features = BlockAvailFeatures(read_only)
    /\ disk_size = TestDiskSize
    /\ kill_evt = FALSE
    /\ disk_image = TRUE
    /\ worker_pc = "none"
    /\ workers_spawned = 0
    /\ activate_calls = 0
    /\ queue_evt_count = 0
    /\ kill_evt_count = 0
    /\ interrupt_evt_count = 0
    /\ avail_pending = 0
    /\ dropped = FALSE
    /\ last_bar = [ op |-> "none", region |-> "none", byte |-> 0,
                    called |-> FALSE ]
    /\ cfg = NoCall
    /\ blk = NoBlk

NextApi ==
    \/ SystemAllocatorNew
    \/ AllocateIrqCall
    \/ AllocateIoBarsCall
    \/ VmRequestSendCall
    \/ VmResponseSendCall
    \/ PeerSendRaw
    \/ PeerShutdown
    \/ VmRequestRecvCall
    \/ VmResponseRecvCall
    \/ VmRequestExecuteCall
    \/ CallReturn

SpecApi == InitApi /\ [][NextApi]_vars

(***************************************************************************)
(* Properties of the transport and of Block::activate (stated over Spec)     *)
(***************************************************************************)
\* The worker thread exists and has not left run.
WorkerRunning == worker_pc \in {"start", "poll", "signal", "irq"}

\* C1: over any sequence of write_bar calls the back-end's activate is called
\* at most once; once device_activated is true no later step calls it again.
Thm_C1_ActivateAtMostOnce ==
    [][ /\ activate_calls' <= 1
        /\ device_activated => activate_calls' = activate_calls ]_vars

\* C1 witness: the transport was activated earlier, mem and the interrupt
\* event were handed to it again, and the ready status was written once more
\* with a valid queue: the write left mem and interrupt_evt in place.
Wit_C1_ReadyWrittenAgain ==
    /\ device_activated
    /\ activate_calls = 1
    /\ last_bar.op = "write"
    /\ last_bar.region = "common"
    /\ driver_status = 15
    /\ mem
    /\ interrupt_evt
    /\ \A i \in 1 .. Len(queues) : QueueIsValid(queues[i])

\* C2: a write_bar to any offset calls activate if and only if, after the
\* write was dispatched, the transport is not yet activated, driver_status is
\* exactly ACKNOWLEDGE|DRIVER|DRIVER_OK|FEATURES_OK (15), every queue is
\* valid, guest memory is set and an interrupt event is assigned.
Thm_C2_ActivateIffCondition ==
    [][ \A w \in WriteInputs :
          ( /\ last_bar'.op = "write"
            /\ last_bar'.region = Region(w[1])
            /\ WriteBar(w[1], w[2]) ) =>
             /\ activate_calls' \in {activate_calls, activate_calls + 1}
             /\ (activate_calls' = activate_calls + 1) <=>
                   ( /\ ~device_activated
                     /\ driver_status' = 15
                     /\ \A i \in 1 .. Len(queues') : QueueIsValid(queues'[i])
                     /\ mem
                     /\ interrupt_evt ) ]_vars

\* C2 witness: a write to the ISR window, not to the status register, was
\* the one that called activate.
Wit_C2_ActivatedByIsrWrite ==
    /\ last_bar.op = "write"
    /\ last_bar.region = "isr"
    /\ last_bar.called
    /\ device_activated
    /\ activate_calls = 1

\* C3 (as claimed): whenever the transport is marked activated, exactly one
\* block worker has been spawned, whatever happens inside Block::activate.
CE_C3_ActivatedImpliesOneWorker ==
    device_activated => workers_spawned = 1

\* C4 (as claimed): a read_bar at the ISR offset returns the low byte of the
\* interrupt status as it was and leaves the interrupt status zero.
CE_C4_IsrReadClears ==
    [][ \A r \in ReadInputs :
          (Region(r[1]) = "isr" /\ Len(r[2]) >= 1 /\ ReadBar(r[1], r[2])) =>
             /\ last_bar'.byte = interrupt_status % 256
             /\ interrupt_status' = 0 ]_vars

\* C5: a write_bar of byte v at the ISR offset clears exactly the bits of the
\* interrupt status that are set in v and leaves every other bit as it was,
\* wherever the worker stands in signal_used_queue.
Thm_C5_IsrWriteClearsWrittenBits ==
    [][ \A w \in WriteInputs :
          ( /\ last_bar'.op = "write"
            /\ last_bar'.region = "isr"
            /\ Region(w[1]) = "isr"
            /\ Len(w[2]) >= 1
            /\ WriteBar(w[1], w[2]) ) =>
             \A i \in ByteBits :
                Bit(interrupt_status', i) =
                   IF Bit(w[2][1], i) = 1 THEN 0 ELSE Bit(interrupt_status, i)
      ]_vars

\* C5 witness: the worker has set USED_RING and not yet written the interrupt
\* event, and an ISR write in between has cleared the bit.
Wit_C5_ClearedBetweenSetAndSignal ==
    /\ last_bar.op = "write"
    /\ last_bar.region = "isr"
    /\ worker_pc = "irq"
    /\ interrupt_status = 0

\* C6 (as claimed): a write_bar in the notify window at 0x3000 + N*4 signals
\* the queue event of queue N.
CE_C6_NotifyWriteSignalsQueueEvt ==
    [][ \A w \in WriteInputs :
          (Region(w[1]) = "notify" /\ WriteBar(w[1], w[2])) =>
             queue_evt_count' = queue_evt_count + 1 ]_vars

\* C7 (as claimed): writing driver_status = 0 after activation, with the
\* worker running, signals the worker's kill event.
CE_C7_ResetSignalsKill ==
    [][ ( /\ device_activated
          /\ WorkerRunning
          /\ kill_evt
          /\ WriteBar(COMMON_CONFIG_BAR_OFFSET + REG_DEVICE_STATUS, << 0 >>) )
        => kill_evt_count' > kill_evt_count ]_vars

\* C8: a read-only Block offers exactly FLUSH and RO (features(0) = 0x220), a
\* writable one exactly FLUSH, DISCARD and WRITE_ZEROES (features(0) =
\* 0x6200); features(1) and every later page are 0; this holds in every
\* state, so the feature set never changes.
Thm_C8_Features ==
    /\ Features(avail_features, 0) = (IF read_only THEN 544 ELSE 25088)
    /\ avail_features = (IF read_only THEN {9, 5} ELSE {9, 13, 14})
    /\ Features(avail_features, 1) = 0
    /\ \A p \in 2 .. MaxPage + 2 : Features(avail_features, p) = 0

\* C8 witness: a read-only Block, after activation, with its worker polling.
Wit_C8_ReadOnlyActivated ==
    /\ read_only
    /\ device_activated
    /\ worker_pc = "poll"
    /\ Features(avail_features, 0) = 544

(***************************************************************************)
(* Properties of Block::read_config (stated over SpecConfig)               *)
(***************************************************************************)
\* C9: for every (offset, len) with offset + len <= sizeof(config),
\* read_config(offset, buf) with a buf of len bytes fills buf with exactly
\* bytes [offset, offset + len) of the serialized configuration.
Thm_C9_ReadConfigInRange ==
    (cfg.op = "read_config" /\ cfg.offset + Len(cfg.before) <= ConfigLen) =>
        /\ Len(cfg.after) = Len(cfg.before)
        /\ \A i \in 1 .. Len(cfg.after) :
              cfg.after[i] = ConfigSpace(disk_size)[cfg.offset + i]

\* C9 witness: four bytes read at offset 44 over a buffer of 0xAA give
\* discard_sector_alignment = 128, little-endian.
Wit_C9_ReadAlignment ==
    /\ cfg.op = "read_config"
    /\ cfg.offset = 44
    /\ cfg.before = << 170, 170, 170, 170 >>
    /\ cfg.after = << 128, 0, 0, 0 >>

\* C10 (as claimed): the bytes of buf at positions past the end of the
\* configuration are zero after read_config, whatever buf held before.
CE_C10_ZeroPastEnd ==
    cfg.op = "read_config" =>
        \A i \in 1 .. Len(cfg.after) :
            cfg.offset + i > ConfigLen => cfg.after[i] = 0

\* C11: the capacity field (config bytes 0..7, little-endian) is
\* floor(disk_size / 512): it is the one number c with
\* c * 512 <= disk_size < (c + 1) * 512, so the bytes of a trailing partial
\* sector are not counted; a 4096-byte disk reports 8.
Thm_C11_CapacityIsFloor ==
    (cfg.op = "read_config" /\ cfg.offset = 0 /\ Len(cfg.before) = 8) =>
        LET c == LeValue(cfg.after)
        IN  /\ c * 512 <= disk_size
            /\ disk_size < (c + 1) * 512
            /\ (disk_size = 4096 => cfg.after = << 8, 0, 0, 0, 0, 0, 0, 0 >>)

\* C11 witness: a 4097-byte disk, one byte into its ninth sector, reports
\* capacity 8.
Wit_C11_PartialSectorDropped ==
    /\ disk_size = 4097
    /\ cfg.op = "read_config"
    /\ cfg.offset = 0
    /\ cfg.after = << 8, 0, 0, 0, 0, 0, 0, 0 >>

(***************************************************************************)
(* Properties of Worker::process_queue (stated over SpecBlk)               *)
(***************************************************************************)
\* The chains of the last process_queue call, by position.
Processed == 1 .. Len(blk.results)

\* What the guest wrote as the request of a processed chain.
InpOf(r) == r.entry.inp

\* The used ring holds (index, len) for the chain of r.
UsedHas(r, len) ==
    \E k \in 1 .. Len(blk.used) :
        blk.used[k] = [ index |-> r.entry.chain.index, len |-> len ]

\* The byte of guest memory at addr.
ByteAt(gm, addr) == RBytes(RSlice(gm, addr, 1))[1]

\* The status descriptor of a chain as the parser takes it: the second
\* descriptor of a FLUSH, the third of any other request; 0 when the chain
\* has none.
StatusDescOf(r) ==
    LET need == IF InpOf(r).type = VIRTIO_BLK_T_FLUSH THEN 2 ELSE 3
    IN  IF Len(r.entry.chain.descs) >= need THEN need ELSE 0

RoutedToReadWrite(r) ==
    /\ ~InpOf(r).head_wo
    /\ InpOf(r).type \notin { VIRTIO_BLK_T_FLUSH, VIRTIO_BLK_T_DISCARD,
                              VIRTIO_BLK_T_WRITE_ZEROES }
    /\ Len(r.entry.chain.descs) = 3

Thm_C14_ParseRejectsMalformed ==
    \A i \in Processed :
        LET r == blk.results[i]
            descs == r.entry.chain.descs
            need == IF InpOf(r).type = VIRTIO_BLK_T_FLUSH THEN 2 ELSE 3
            sd == StatusDescOf(r)
        IN  /\ descs[1].wo => ~r.parsed
            /\ Len(descs) < need => ~r.parsed
            /\ (sd # 0 /\ (~descs[sd].wo \/ descs[sd].len = 0)) => ~r.parsed
            /\ r.res # "none" =>
                  /\ r.parsed
                  /\ ~descs[1].wo
                  /\ sd # 0
                  /\ descs[sd].wo
                  /\ descs[sd].len >= 1

\* C14 witness: a DISCARD chain with a write-only head was rejected and
\* never executed.
Wit_C14_WriteOnlyHeadRejected ==
    \E i \in Processed :
        LET r == blk.results[i]
        IN  /\ r.entry.chain.descs[1].wo
            /\ InpOf(r).type = VIRTIO_BLK_T_DISCARD
            /\ ~r.parsed
            /\ r.res = "none"

\* s * 512 as a number without width: no bit is dropped.
SectorByteOffset(sec) ==
    [ lo |-> sec.lo * Pow2(SECTOR_SHIFT),
      hibits |-> { b + SECTOR_SHIFT : b \in sec.hibits } ]

\* The n bytes of a disk content that start at a byte offset; none when the
\* offset has a bit above the 25 low ones, far past the end of the image.
DiskBytesAt(disk, off, n) ==
    IF off.hibits # {} THEN << >> ELSE RSlice(disk, off.lo, n)

\* C15 (as claimed): after a successful IN of n bytes at sector s, guest
\* memory at data_addr holds exactly the n disk bytes from byte offset
\* s * 512, the status byte is OK(0) and the used entry reports n.
CE_C15_InCopiesSectorBytes ==
    \A i \in Processed :
        LET r == blk.results[i]
            n == InpOf(r).data_len
            got == RSlice(r.gm_after, r.entry.chain.descs[2].addr, n)
        IN  (/\ r.parsed /\ r.res = "Ok" /\ ~blk.panicked
             /\ InpOf(r).type = VIRTIO_BLK_T_IN) =>
              /\ RLen(got) = n
              /\ got = DiskBytesAt(r.disk_before,
                                   SectorByteOffset(InpOf(r).sector), n)
              /\ ByteAt(r.gm_after, r.entry.chain.descs[3].addr)
                     = VIRTIO_BLK_S_OK
              /\ UsedHas(r, n)

\* C16 (as claimed): every successful OUT and every successful FLUSH writes
\* status OK(0) and is completed in the used ring with (head_index, 1).
CE_C16_OutFlushUsedLenOne ==
    \A i \in Processed :
        LET r == blk.results[i]
        IN  (/\ r.parsed /\ r.res = "Ok" /\ ~blk.panicked
             /\ InpOf(r).type \in {VIRTIO_BLK_T_OUT, VIRTIO_BLK_T_FLUSH}) =>
              /\ ByteAt(r.gm_after, r.entry.chain.descs[StatusDescOf(r)].addr)
                     = VIRTIO_BLK_S_OK
              /\ r.len = 1
              /\ UsedHas(r, 1)

\* C17 (as claimed): a successful IN of n bytes at sector s that follows a
\* successful OUT of n bytes at sector s and a FLUSH, with no OUT, DISCARD or
\* WRITE_ZEROES on those sectors in between, returns the bytes written.
CE_C17_WriteFlushReadRoundTrip ==
    \A i \in Processed :
        LET r == blk.results[i]
            n == InpOf(r).data_len
        IN  (/\ r.parsed /\ r.res = "Ok" /\ ~blk.panicked
             /\ InpOf(r).type = VIRTIO_BLK_T_IN
             /\ r.last_out.valid /\ r.last_out.flushed
             /\ ~r.last_out.clobbered
             /\ r.last_out.sector = InpOf(r).sector
             /\ r.last_out.n = n) =>
              RSlice(r.gm_after, r.entry.chain.descs[2].addr, n)
                  = r.last_out.data

\* C18 (as claimed): a request whose type is none of IN, OUT, FLUSH, DISCARD,
\* WRITE_ZEROES gets status UNSUPP(2) and written length 1, whatever its
\* sector and the disk state, and the disk contents stay as they were.
CE_C18_UnsupportedGetsUnsupp ==
    \A i \in Processed :
        LET r == blk.results[i]
        IN  (/\ r.parsed /\ ~blk.panicked
             /\ InpOf(r).type \notin
                  { VIRTIO_BLK_T_IN, VIRTIO_BLK_T_OUT, VIRTIO_BLK_T_FLUSH,
                    VIRTIO_BLK_T_DISCARD, VIRTIO_BLK_T_WRITE_ZEROES }) =>
              /\ r.status = VIRTIO_BLK_S_UNSUPP
              /\ ByteAt(r.gm_after, r.entry.chain.descs[3].addr)
                     = VIRTIO_BLK_S_UNSUPP
              /\ r.len = 1
              /\ r.disk_after = r.disk_before

\* The errors of execute that stand for a failed host or guest-memory
\* operation.
IoErrors ==
    { "Seek", "Read", "Write", "Flush", "ArmingTimer", "TimerFd",
      "DiscardWriteZeroes" }

BatchAddedUsed == Len(blk'.used) > Len(blk.used)

\* C21 (as claimed): the interrupt event is signalled exactly once per batch
\* that added at least one used entry and never for an empty batch, after
\* the USED_RING bit was set: a step that adds used entries leads to
\* signal_used_queue, the worker goes to signal_used_queue only after such a
\* step, and the event is written only with the bit set.
CE_C21_OneInterruptPerBatch ==
    [][ /\ BatchAddedUsed => worker_pc' = "signal"
        /\ (worker_pc # "signal" /\ worker_pc' = "signal") => BatchAddedUsed
        /\ interrupt_evt_count' > interrupt_evt_count =>
              BitAnd(interrupt_status, INTERRUPT_STATUS_USED_RING) # 0
      ]_vars

\* The last request of the last batch, when it was executed.
LastResultIs(t) ==
    /\ blk.results # << >>
    /\ ~blk.panicked
    /\ blk.results[Len(blk.results)].parsed
    /\ blk.results[Len(blk.results)].res = "Ok"
    /\ blk.results[Len(blk.results)].entry.inp.type = t

\* C22 (as claimed): whenever a successful OUT has completed since the last
\* successful flush, the flush timer is armed.
CE_C22_DirtyImpliesArmed == (WorkerLoop /\ blk.dirty) => blk.armed

\* C22 (amended): after a successful OUT the timer is armed, after a
\* successful FLUSH it is neither armed nor expired, and whenever a
\* successful OUT has completed since the last successful flush the timer is
\* armed or has expired with its tick still to be handled by the worker.
Thm_C22_DirtyImpliesArmedOrTick ==
    /\ (WorkerLoop /\ blk.dirty) => (blk.armed \/ blk.tick)
    /\ ~(blk.armed /\ blk.tick)
    /\ LastResultIs(VIRTIO_BLK_T_OUT) => (blk.armed \/ blk.tick)
    /\ LastResultIs(VIRTIO_BLK_T_FLUSH) =>
          (~blk.dirty /\ ~blk.armed /\ ~blk.tick)

\* C22 witness: a batch of a FLUSH followed by an OUT has left the timer
\* armed again.
Wit_C22_RearmedAfterFlush ==
    /\ Len(blk.results) = 2
    /\ blk.results[1].res = "Ok"
    /\ blk.results[1].entry.inp.type = VIRTIO_BLK_T_FLUSH
    /\ LastResultIs(VIRTIO_BLK_T_OUT)
    /\ blk.armed
    /\ blk.dirty

\* The log entries of the last wakeup for a token.
LogOf(b, token) == { i \in 1 .. Len(b.log) : b.log[i].token = token }

\* C23: on a flush-timer tick the worker flushes; a failed flush ends the
\* poll loop at once and the worker exits, a successful one lets the loop go
\* on and leaves the timer as it was; the timer becomes armed only by a
\* successful OUT; a worker that exited processes nothing.
Thm_C23_TimerTick ==
    [][ /\ \A i \in LogOf(blk', "FlushTimer") :
              /\ blk'.log[i].ok =>
                    /\ ~blk'.log[i].exit
                    /\ blk'.log[i].armed_after = blk'.log[i].armed_before
              /\ ~blk'.log[i].ok =>
                    /\ blk'.log[i].exit
                    /\ i = Len(blk'.log)
                    /\ worker_pc' = "exited"
        /\ (~blk.armed /\ blk'.armed) =>
              \E k \in 1 .. Len(blk'.results) :
                  /\ blk'.results[k].res = "Ok"
                  /\ blk'.results[k].entry.inp.type = VIRTIO_BLK_T_OUT
        /\ worker_pc = "exited" =>
              /\ worker_pc' = "exited"
              /\ blk'.disk = blk.disk
              /\ blk'.avail = blk.avail \/ Len(blk'.avail) > Len(blk.avail)
              /\ Len(blk'.used) <= Len(blk.used)
      ]_vars

\* C23 witness: a tick whose flush failed has ended the worker while chains
\* were still available.
Wit_C23_FlushFailedExit ==
    /\ worker_pc = "exited"
    /\ blk.log # << >>
    /\ blk.log[Len(blk.log)].token = "FlushTimer"
    /\ ~blk.log[Len(blk.log)].ok
    /\ blk.avail # << >>

\* C24: once kill_evt is signalled a running worker eventually leaves its
\* poll loop and exits, and a worker that has left the loop takes no chain
\* from the available ring.
Thm_C24_KillLeadsToExit ==
    /\ (kill_evt_count > 0 /\ WorkerRunning) ~> (worker_pc = "exited")
    /\ [][ worker_pc = "exited" =>
              /\ worker_pc' = "exited"
              /\ avail_pending' >= avail_pending
         ]_vars

\* C24 witness: the kill event was signalled and the worker has exited with
\* a chain still in the available ring.
Wit_C24_KilledWithChainsLeft ==
    /\ kill_evt_count > 0
    /\ worker_pc = "exited"
    /\ workers_spawned = 1
    /\ avail_pending > 0

U32Plus(f, k) ==
    U32(f.hi + (f.lo + k) \div 65536, (f.lo + k) % 65536)

\* The number of successful calls among the results.
Successes(results) ==
    Cardinality({ i \in 1 .. Len(results) : results[i].some })

\* C26: for an allocator created with first_irq = f the k-th successful
\* allocate_irq returns f + k (k from 0), the successes come first,
\* next_irq is f plus their number, a call fails exactly when next_irq is
\* u32::MAX, and a failed call leaves next_irq unchanged.
Thm_C26_IrqSequence ==
    /\ [](cfg.op = "allocator" =>
            LET k == Successes(cfg.results)
            IN  /\ \A i \in 1 .. Len(cfg.results) :
                      cfg.results[i] =
                          IF i <= k THEN Some(U32Plus(cfg.first_irq, i - 1))
                          ELSE None
                /\ cfg.next_irq = U32Plus(cfg.first_irq, k)
                /\ k < Len(cfg.results) => cfg.next_irq = U32Max)
    /\ [][ (cfg.op = "allocator" /\ cfg'.op = "allocator") =>
              LET last == cfg'.results[Len(cfg'.results)]
              IN  /\ last.some <=> cfg.next_irq # U32Max
                  /\ ~last.some => cfg'.next_irq = cfg.next_irq
                  /\ last.some => cfg'.next_irq # cfg.next_irq
         ]_vars

\* C26 witness: an allocator created two below u32::MAX has handed out
\* u32::MAX - 2 and u32::MAX - 1 and then failed.
Wit_C26_IrqExhausted ==
    /\ cfg.op = "allocator"
    /\ cfg.first_irq = U32(65535, 65533)
    /\ cfg.results = << Some(U32(65535, 65533)), Some(U32(65535, 65534)),
                        None >>
    /\ cfg.next_irq = U32Max

\* C27: allocate_io_bars returns IoAllocationFailed(0x4000) when the MMIO
\* allocator gives nothing and IoRegistrationFailed(addr) when no BAR is
\* registered for the address it gave; in both cases no capability was
\* added and settings_bar is unchanged; on success it returns exactly the
\* range (addr, 0x4000).
Thm_C27_AllocateIoBars ==
    cfg.op = "allocate_io_bars" =>
        /\ ~cfg.mmio.some =>
              /\ cfg.result = [ ok |-> FALSE, err |-> "IoAllocationFailed",
                                arg |-> 16384 ]
              /\ cfg.after = cfg.before
        /\ (cfg.mmio.some /\ ~cfg.bar.some) =>
              /\ cfg.result = [ ok |-> FALSE, err |-> "IoRegistrationFailed",
                                arg |-> cfg.mmio.v ]
              /\ cfg.after.caps = cfg.before.caps
              /\ cfg.after.settings_bar = cfg.before.settings_bar
        /\ cfg.result.ok =>
              /\ cfg.mmio.some /\ cfg.bar.some
              /\ cfg.result.ranges = << << cfg.mmio.v, 16384 >> >>
              /\ cfg.after.settings_bar = cfg.bar.v

\* C27 witness: the allocator gave an address, no BAR could be registered.
Wit_C27_RegistrationFailed ==
    /\ cfg.op = "allocate_io_bars"
    /\ cfg.mmio.some
    /\ ~cfg.bar.some
    /\ cfg.room = MaxCapRoom
    /\ cfg.result.err = "IoRegistrationFailed"
    /\ cfg.after.caps = << >>

\* The request received is the request sent: the same variant with the
\* same field values, the descriptor received being one of the file sent.
SameRequest(s, r) ==
    IF s.variant = "RegisterMemory"
      THEN r.variant = "RegisterMemory" /\ r.size = s.size
           /\ r.fd.file = s.fd.file
    ELSE r = s

\* C28: a request of one of the variants Exit, RegisterMemory,
\* UnregisterMemory, BalloonAdjust, AllocateAndRegisterGpuMemory is sent as
\* one datagram, and VmRequest::recv of that datagram yields the same
\* variant with the same field values.
Thm_C28_RequestRoundTrip ==
    /\ (cfg.op = "socket" /\ cfg.kind = "request"
        /\ cfg.sent.variant # "RegisterIrqfd") =>
            (cfg.send_result.ok /\ cfg.dgram.some)
    /\ (cfg.op = "recv" /\ cfg.recv = "request" /\ cfg.kind = "request") =>
            (cfg.result.ok /\ SameRequest(cfg.sent, cfg.result.v))

\* C28 witness: BalloonAdjust(i32::MIN) was sent and received.
Wit_C28_NegativeBalloonReceived ==
    /\ cfg.op = "recv"
    /\ cfg.recv = "request"
    /\ cfg.kind = "request"
    /\ cfg.sent = [ variant |-> "BalloonAdjust", pages |-> I32Min ]
    /\ cfg.result.ok
    /\ cfg.result.v.pages = I32Min

\* The message type in the first four bytes of a datagram of at least four
\* bytes, when it is below 2^16.
RawType(bytes) ==
    IF bytes[3] = 0 /\ bytes[4] = 0 THEN bytes[1] + 256 * bytes[2] ELSE 0

\* C29 (as claimed): recv classifies a datagram by a fixed precedence: a
\* length n other than the message size (32 for requests, 48 for
\* responses) yields BadSize(n) whatever the content, then an unknown type
\* yields InvalidType, then a type that needs a descriptor and has none
\* yields ExpectFd.
CE_C29_RecvErrorPrecedence ==
    cfg.op = "recv" =>
        LET n == Len(cfg.dgram.bytes)
            size == IF cfg.recv = "request" THEN 32 ELSE 48
            known == IF cfg.recv = "request" THEN 1 .. 5 ELSE 1 .. 4
            needs_fd == IF cfg.recv = "request" THEN 2 ELSE 4
        IN  /\ n # size => cfg.result = BadSize(n)
            /\ (n = size /\ RawType(cfg.dgram.bytes) \notin known) =>
                  cfg.result = Err("InvalidType")
            /\ (n = size /\ RawType(cfg.dgram.bytes) = needs_fd
                /\ ~cfg.dgram.file.some) =>
                  cfg.result = Err("ExpectFd")

\* The response received is the response sent, but for the number of the
\* descriptor.
SameResponse(s, r) ==
    IF s.variant = "AllocateAndRegisterGpuMemory"
      THEN /\ r.variant = "AllocateAndRegisterGpuMemory"
           /\ r.pfn = s.pfn
           /\ r.slot = s.slot
           /\ r.desc = s.desc
           /\ r.fd.file = s.fd.file
    ELSE r = s

\* C30 (as claimed): VmResponse::recv of a sent response yields the same
\* variant with equal fields, and for Err an equal error for every errno.
CE_C30_ResponseRoundTrip ==
    (cfg.op = "recv" /\ cfg.recv = "response" /\ cfg.kind = "response") =>
        (cfg.result.ok /\ SameResponse(cfg.sent, cfg.result.v))

\* C30 (amended): Ok, RegisterMemory and AllocateAndRegisterGpuMemory are
\* received as sent; Err(e) is received as Err(|e|), and as Err(ERANGE) for
\* e = i32::MIN, so as sent exactly when e is not negative.
Thm_C30_ResponseRoundTripAbs ==
    (cfg.op = "recv" /\ cfg.recv = "response" /\ cfg.kind = "response") =>
        /\ cfg.result.ok
        /\ cfg.sent.variant # "Err" => SameResponse(cfg.sent, cfg.result.v)
        /\ cfg.sent.variant = "Err" =>
              /\ cfg.result.v.variant = "Err"
              /\ cfg.result.v.errno =
                    IF cfg.sent.errno = I32Min THEN 34
                    ELSE IF cfg.sent.errno < 0 THEN 0 - cfg.sent.errno
                    ELSE cfg.sent.errno
              /\ (cfg.result.v = cfg.sent) <=> (cfg.sent.errno >= 0)

\* C30 witness: Err(-1) was sent and Err(1) received.
Wit_C30_NegativeErrnoReceived ==
    /\ cfg.op = "recv"
    /\ cfg.recv = "response"
    /\ cfg.kind = "response"
    /\ cfg.sent = [ variant |-> "Err", errno |-> -1 ]
    /\ cfg.result = Ok([ variant |-> "Err", errno |-> 1 ])

\* C31: after VmRequest::execute the running out-argument is false exactly
\* when the request was Exit, whatever it held before and whether the
\* request succeeded, and Exit is answered with VmResponse::Ok.
Thm_C31_RunningIffNotExit ==
    cfg.op = "execute" =>
        /\ ~cfg.running <=> cfg.request.variant = "Exit"
        /\ cfg.request.variant = "Exit" => cfg.resp = [ variant |-> "Ok" ]

\* C31 witness: a request other than Exit failed with running false before
\* the call, and running is true afterwards.
Wit_C31_FailedRequestKeepsRunning ==
    /\ cfg.op = "execute"
    /\ cfg.request.variant = "UnregisterMemory"
    /\ ~cfg.running_before
    /\ ~cfg.host_ok
    /\ cfg.resp.variant = "Err"
    /\ cfg.running

(***************************************************************************)
(* SpecExec: Request::execute applied to the requests Request::parse can   *)
(* build, on the image of a Block constructed read-only or writable.       *)
(***************************************************************************)
\* Requests executed one after the other on the same image.
MaxExec == 2

\* The image given to Block::new holds two sectors.
ExecDiskSize == 2 * Pow2(SECTOR_SHIFT)

\* Sector numbers of headers and segments: inside the image, its last
\* sector, the first sector past it, 2^54 and 2^55.
ExecSectors == Sectors \cup { U64(2, {}) }

\* The requests parse_read_write and parse_discard_write_zeroes return: the
\* latter with sector 0, no data and the segment read from guest memory.
ExecRequests ==
    { ParseOk(t, sec, DataAddr(0), DataSize, StatusAddr(0), NoSeg).req :
        t \in { VIRTIO_BLK_T_IN, VIRTIO_BLK_T_OUT, VIRTIO_BLK_T_FLUSH,
                UnsupportedType },
        sec \in ExecSectors }
    \cup
    { ParseOk(t, U64(0, {}), 0, 0, StatusAddr(0),
              [ some |-> TRUE, sector |-> sec, num_sectors |-> n,
                flags |-> f ]).req :
        t \in { VIRTIO_BLK_T_DISCARD, VIRTIO_BLK_T_WRITE_ZEROES },
        sec \in ExecSectors, n \in 1 .. 2, f \in 0 .. 2 }

InitExec ==
    /\ driver_status = 0
    /\ queues = [i \in 1 .. Len(QUEUE_SIZES) |-> QueueNew(QUEUE_SIZES[i])]
    /\ device_activated = FALSE
    /\ interrupt_status = 0
    /\ interrupt_evt = FALSE
    /\ mem = FALSE
    /\ queue_evts = Len(QUEUE_SIZES)
    /\ read_only \in BOOLEAN
    /\ avail_features = BlockAvailFeatures(read_only)
    /\ disk_size = ExecDiskSize
    /\ kill_evt = FALSE
    /\ disk_image = TRUE
    /\ worker_pc = "none"
    /\ workers_spawned = 0
    /\ activate_calls = 0
    /\ queue_evt_count = 0
    /\ kill_evt_count = 0
    /\ interrupt_evt_count = 0
    /\ avail_pending = 0
    /\ dropped = FALSE
    /\ last_bar = [ op |-> "none", region |-> "none", byte |-> 0,
                    called |-> FALSE ]
    /\ cfg = NoCall
    /\ blk = [ phase |-> "exec", disk |-> RFill(ExecDiskSize, DiskFill),
               armed |-> FALSE, gm |-> InitGm, count |-> 0 ]

\* request.execute(&mut disk, &mut flush_timer, &mem) as process_queue calls
\* it, with the status process_queue derives from its result.
ExecuteCall ==
    /\ cfg = NoCall
    /\ blk.count < MaxExec
    /\ \E req \in ExecRequests, fault \in {"none", "disk"} :
          LET e == Execute(req, blk.disk, blk.armed, blk.gm, fault)
          IN  /\ cfg' = [ op |-> "execute", req |-> req, fault |-> fault,
                          res |-> e.res,
                          status |-> IF e.res = "Ok" THEN VIRTIO_BLK_S_OK
                                     ELSE ExecuteErrorStatus(e.res),
                          disk_before |-> blk.disk, disk_after |-> e.disk ]
              /\ blk' = [ blk EXCEPT !.disk = e.disk, !.armed = e.armed,
                                     !.gm = e.gm, !.count = @ + 1 ]
    /\ UNCHANGED << transportVars, blockVars, workerVars, eventVars, dropped >>

NextExec ==
    \/ ExecuteCall
    \/ CallReturn

SpecExec == InitExec /\ [][NextExec]_vars

(***************************************************************************)
(* Properties of Request::execute on the image (stated over SpecExec).     *)
(***************************************************************************)
\* The segment of the discard or write-zeroes request under way.
ExecSeg == cfg.req.discard_write_zeroes_seg

\* The request under way is a DISCARD or WRITE_ZEROES with the flags its
\* type allows.
ExecValidFlags ==
    /\ cfg.op = "execute"
    /\ \/ cfg.req.request_type = VIRTIO_BLK_T_DISCARD /\ ExecSeg.flags = 0
       \/ /\ cfg.req.request_type = VIRTIO_BLK_T_WRITE_ZEROES
          /\ ExecSeg.flags \in {0, VIRTIO_BLK_DISCARD_WRITE_ZEROES_FLAG_UNMAP}

\* C32 (as claimed): a DISCARD with non-zero flags and a WRITE_ZEROES with a
\* flag other than UNMAP end with status IOERR and the image unchanged; with
\* valid flags (and no failing host operation) both end with status OK and
\* exactly the num_sectors * 512 bytes from byte segment.sector * 512 on
\* zeroed, so that no byte below that offset has changed.
CE_C32_DiscardWriteZeroesFlags ==
    ( /\ cfg.op = "execute"
      /\ cfg.req.request_type \in { VIRTIO_BLK_T_DISCARD,
                                    VIRTIO_BLK_T_WRITE_ZEROES } ) =>
        IF ExecValidFlags
          THEN cfg.fault = "none" =>
                 /\ cfg.status = VIRTIO_BLK_S_OK
                 /\ IF ExecSeg.sector.hibits = {}
                      THEN cfg.disk_after =
                             RSplice(cfg.disk_before,
                                     ExecSeg.sector.lo * Pow2(SECTOR_SHIFT),
                                     RFill(ExecSeg.num_sectors
                                             * Pow2(SECTOR_SHIFT), 0))
                      ELSE RSlice(cfg.disk_after, 0, RLen(cfg.disk_before))
                             = cfg.disk_before
          ELSE /\ cfg.status = VIRTIO_BLK_S_IOERR
               /\ cfg.disk_after = cfg.disk_before

\* C34 (as claimed): on a Block constructed with read_only = true no request
\* changes the contents or the size of the image.
CE_C34_ReadOnlyImageUnchanged ==
    (cfg.op = "execute" /\ read_only) => cfg.disk_after = cfg.disk_before

\* The bytes [off, off + n) lie inside the capacity advertised for the image.
InsideCapacity(sec, n) ==
    /\ sec.hibits = {}
    /\ sec.lo * Pow2(SECTOR_SHIFT) + n
          <= (disk_size \div Pow2(SECTOR_SHIFT)) * Pow2(SECTOR_SHIFT)

\* The range of the image the request under way addresses is inside the
\* advertised capacity.
ExecInsideCapacity ==
    IF cfg.req.request_type \in { VIRTIO_BLK_T_DISCARD,
                                  VIRTIO_BLK_T_WRITE_ZEROES }
      THEN InsideCapacity(ExecSeg.sector,
                          ExecSeg.num_sectors * Pow2(SECTOR_SHIFT))
      ELSE InsideCapacity(cfg.req.sector, cfg.req.data_len)

\* C35 (as claimed): a request whose range is not inside the advertised
\* capacity writes no byte past the end of the image, which is never
\* shorter than the capacity: the size of the image does not grow.
CE_C35_NoAccessBeyondCapacity ==
    ( /\ cfg.op = "execute"
      /\ cfg.req.request_type \in { VIRTIO_BLK_T_IN, VIRTIO_BLK_T_OUT,
                                    VIRTIO_BLK_T_DISCARD,
                                    VIRTIO_BLK_T_WRITE_ZEROES }
      /\ ~ExecInsideCapacity ) =>
        RLen(cfg.disk_after) <= RLen(cfg.disk_before)

(***************************************************************************)
(* Further properties of Worker::run (stated over SpecRun).                *)
(***************************************************************************)
\* C33 (as claimed): every batch in which process_queue added a used entry
\* is eventually followed by signal_used_queue, also when the kill event or
\* a failing flush-timer tick is reported in the same wakeup.  A worker that
\* has left run signals nothing any more, so the worker has not left run in
\* the wakeup of a batch that added used entries.
CE_C33_BatchEventuallySignalled ==
    worker_pc = "exited" =>
        \A i \in LogOf(blk, "QueueAvailable") : blk.log[i].used = 0

\* C38 (as claimed): one expiry of the flush timer causes one flush.  Once
\* the worker has handled a timer tick, alone in its wakeup and with a
\* successful flush, and is back in poll, the timer event is no longer
\* pending, so that the worker does not wake and flush again before a queue
\* event, the kill event or the expiry of a timer armed by a later OUT.
CE_C38_OneFlushPerExpiry ==
    ( /\ worker_pc = "poll"
      /\ Len(blk.log) = 1
      /\ blk.log[1].token = "FlushTimer"
      /\ blk.log[1].ok ) => ~blk.tick

Thm_C39_ActivationAllOrNothing ==
    [][ \A w \in WriteInputs :
          ( /\ last_bar'.op = "write"
            /\ last_bar'.region = Region(w[1])
            /\ WriteBar(w[1], w[2]) ) =>
             IF last_bar'.called
               THEN /\ interrupt_evt /\ mem
                    /\ ~interrupt_evt' /\ ~mem'
                    /\ queue_evts' = 0
                    /\ activate_calls' = activate_calls + 1
               ELSE /\ interrupt_evt' = interrupt_evt
                    /\ mem' = mem
                    /\ queue_evts' = queue_evts
                    /\ activate_calls' = activate_calls ]_vars

\* C39 witness: the ready status was written with a valid queue and an
\* interrupt event assigned but no guest memory set: activate was not
\* called and the interrupt event is still in place.
Wit_C39_ReadyWithoutMemory ==
    /\ last_bar.op = "write"
    /\ last_bar.region = "common"
    /\ ~last_bar.called
    /\ ~device_activated
    /\ driver_status = ready_bits
    /\ \A i \in 1 .. Len(queues) : QueueIsValid(queues[i])
    /\ interrupt_evt
    /\ ~mem
    /\ queue_evts = Len(QUEUE_SIZES)

(***************************************************************************)
(* SpecIter: the loop of Worker::process_queue over the chains the queue   *)
(* iterator yields, against a guest that moves the index of the available  *)
(* ring as it likes.  Only the counting is kept: next_avail of the queue,  *)
(* the guest's index, used_count and next_used, all u16 but used_count.    *)
(***************************************************************************)
\* Times the guest moves the index of the available ring.
MaxPublishOps == 2

\* By how much the guest moves the index at a time: one entry, or as many
\* as the ring has slots.
PublishSteps == { 1, QUEUE_SIZE }

U16(n) == n % 65536

\* next_avail values the queue starts from: 0, and one close to the wrap.
IterStarts == { 0, 65536 - QUEUE_SIZE }

InitIterState(n) ==
    [ phase |-> "iter", next_avail |-> n, avail_idx |-> n, last_index |-> n,
      next_used |-> n, used_count |-> 0, iterating |-> FALSE,
      panicked |-> FALSE, publish_ops |-> 0 ]

InitIter ==
    /\ driver_status = ready_bits
    /\ queues = [i \in 1 .. Len(QUEUE_SIZES) |->
                    [ QueueNew(QUEUE_SIZES[i]) EXCEPT
                        !.ready = TRUE, !.desc_table = RingsAddr,
                        !.avail_ring = RingsAddr + 16 * QUEUE_SIZES[i],
                        !.used_ring = RingsAddr + 24 * QUEUE_SIZES[i] ]]
    /\ device_activated = TRUE
    /\ interrupt_status = 0
    /\ interrupt_evt = FALSE
    /\ mem = FALSE
    /\ queue_evts = 0
    /\ read_only = FALSE
    /\ avail_features = BlockAvailFeatures(read_only)
    /\ disk_size = Pow2(SECTOR_SHIFT)
    /\ kill_evt = TRUE
    /\ disk_image = FALSE
    /\ worker_pc = "poll"
    /\ workers_spawned = 1
    /\ activate_calls = 1
    /\ queue_evt_count = 0
    /\ kill_evt_count = 0
    /\ interrupt_evt_count = 0
    /\ avail_pending = 0
    /\ dropped = FALSE
    /\ last_bar = [ op |-> "write", region |-> "common", byte |-> 0,
                    called |-> TRUE ]
    /\ cfg = NoCall
    /\ \E n \in IterStarts : blk = InitIterState(n)

\* The guest stores heads in the next slots of the available ring (slot
\* index modulo the queue size, so that a slot may be used again before the
\* device took it) and moves the ring's index, at any time.
IterGuestPublish ==
    /\ blk.publish_ops < MaxPublishOps
    /\ \E k \in PublishSteps :
          blk' = [ blk EXCEPT !.avail_idx = U16(@ + k),
                              !.publish_ops = @ + 1 ]
    /\ UNCHANGED << transportVars, blockVars, workerVars, eventVars, dropped,
                    cfg >>

\* process_queue begins: used_count = 0 and queue.iter(&self.mem), which
\* starts at next_avail and ends at the index of the available ring.
IterStart ==
    /\ ~blk.iterating
    /\ ~blk.panicked
    /\ blk' = [ blk EXCEPT !.iterating = TRUE, !.used_count = 0,
                           !.last_index = blk.avail_idx ]
    /\ UNCHANGED << transportVars, blockVars, workerVars, eventVars, dropped,
                    cfg >>

\* One turn of the for loop: the iterator yields the chain at next_avail,
\* the request is handled and used_desc_heads[used_count] is assigned, which
\* panics when used_count is not below the length of the array.
IterNext ==
    /\ blk.iterating
    /\ blk.next_avail # blk.last_index
    /\ IF blk.used_count >= QUEUE_SIZE
         THEN /\ blk' = [ blk EXCEPT !.next_avail = U16(@ + 1),
                                     !.iterating = FALSE,
                                     !.panicked = TRUE ]
              /\ worker_pc' = "panicked"
         ELSE /\ blk' = [ blk EXCEPT !.next_avail = U16(@ + 1),
                                     !.used_count = @ + 1 ]
              /\ worker_pc' = worker_pc
    /\ UNCHANGED << transportVars, blockVars, workers_spawned, activate_calls,
                    eventVars, dropped, cfg >>

\* The iterator is at its end: queue.add_used for each of the used_count
\* entries noted, and process_queue returns used_count > 0.
IterEnd ==
    /\ blk.iterating
    /\ blk.next_avail = blk.last_index
    /\ blk' = [ blk EXCEPT !.iterating = FALSE,
                           !.next_used = U16(@ + blk.used_count) ]
    /\ UNCHANGED << transportVars, blockVars, workerVars, eventVars, dropped,
                    cfg >>

NextIter ==
    \/ IterGuestPublish
    \/ IterStart
    \/ IterNext
    \/ IterEnd

SpecIter == InitIter /\ [][NextIter]_vars

\* C36 (as claimed): within one process_queue call at most QUEUE_SIZE chains
\* are recorded, so the assignment to used_desc_heads[used_count] is always
\* in bounds and the worker never panics on it, whatever the guest publishes.
CE_C36_UsedCountInBounds ==
    /\ blk.used_count <= QUEUE_SIZE
    /\ ~blk.panicked

(***************************************************************************)
(* SpecActivate: Block::activate called any number of times on one Block,  *)
(* then the Block dropped.  Every kill EventFd pair activate creates has   *)
(* an identity: the pair whose one end the Block keeps, the pair whose     *)
(* other end the worker polls, the pairs that were written.                *)
(***************************************************************************)
\* Calls of Block::activate on the one Block.
MaxActivateCalls == 3

InitActivateState ==
    [ phase |-> "activate", next_pair |-> 1, self_pair |-> 0,
      worker_pair |-> 0, written |-> {} ]

InitActivate ==
    /\ driver_status = 0
    /\ queues = [i \in 1 .. Len(QUEUE_SIZES) |-> QueueNew(QUEUE_SIZES[i])]
    /\ device_activated = FALSE
    /\ interrupt_status = 0
    /\ interrupt_evt = FALSE
    /\ mem = FALSE
    /\ queue_evts = Len(QUEUE_SIZES)
    /\ read_only \in BOOLEAN
    /\ avail_features = BlockAvailFeatures(read_only)
    /\ disk_size = TestDiskSize
    /\ kill_evt = FALSE
    /\ disk_image = TRUE
    /\ worker_pc = "none"
    /\ workers_spawned = 0
    /\ activate_calls = 0
    /\ queue_evt_count = 0
    /\ kill_evt_count = 0
    /\ interrupt_evt_count = 0
    /\ avail_pending = 0
    /\ dropped = FALSE
    /\ last_bar = [ op |-> "none", region |-> "none", byte |-> 0,
                    called |-> FALSE ]
    /\ cfg = NoCall
    /\ blk = InitActivateState

\* block.activate(mem, interrupt_evt, status, queues, queue_evts) with nq
\* queues and ne queue events.
BlockActivateCall ==
    /\ ~dropped
    /\ cfg = NoCall
    /\ activate_calls < MaxActivateCalls
    /\ \E nq \in 1 .. 2, ne \in 0 .. 1, outcome \in ActivateOutcomes :
          LET b == BlockActivate(nq, ne, outcome, kill_evt, disk_image)
          IN  /\ kill_evt' = b.kill_evt
              /\ disk_image' = b.disk_image
              /\ worker_pc' = IF b.spawned THEN "poll" ELSE worker_pc
              /\ workers_spawned' =
                    workers_spawned + (IF b.spawned THEN 1 ELSE 0)
              /\ blk' = [ blk EXCEPT
                            !.next_pair = IF b.new_pair THEN @ + 1 ELSE @,
                            !.self_pair = IF b.new_pair THEN blk.next_pair
                                          ELSE @,
                            !.worker_pair = IF b.spawned THEN blk.next_pair
                                            ELSE @ ]
              /\ cfg' = [ op |-> "activate", nq |-> nq, ne |-> ne,
                          outcome |-> outcome, spawned |-> b.spawned ]
    /\ activate_calls' = activate_calls + 1
    /\ UNCHANGED << transportVars, read_only, avail_features, disk_size,
                    eventVars, dropped >>

\* Drop for Block: the kill EventFd the Block holds, if any, is written.
BlockDropCall ==
    /\ ~dropped
    /\ cfg = NoCall
    /\ dropped' = TRUE
    /\ kill_evt' = FALSE
    /\ kill_evt_count' = IF kill_evt THEN kill_evt_count + 1 ELSE kill_evt_count
    /\ blk' = [ blk EXCEPT
                  !.self_pair = 0,
                  !.written = IF kill_evt THEN @ \cup {blk.self_pair} ELSE @ ]
    /\ UNCHANGED << transportVars, read_only, avail_features, disk_size,
                    disk_image, workerVars, queue_evt_count,
                    interrupt_evt_count, avail_pending, cfg >>

\* The worker's poll reports Token::Kill once the pair it polls was written:
\* break 'poll.
WorkerKilled ==
    /\ worker_pc = "poll"
    /\ blk.worker_pair \in blk.written
    /\ worker_pc' = "exited"
    /\ UNCHANGED << transportVars, blockVars, workers_spawned, activate_calls,
                    eventVars, dropped, cfg, blk >>

NextActivate ==
    \/ BlockActivateCall
    \/ BlockDropCall
    \/ WorkerKilled
    \/ CallReturn

SpecActivate == InitActivate /\ [][NextActivate]_vars

\* C40 (as claimed): after any sequence of Block::activate calls at most one
\* worker was spawned, and while that worker runs the kill event the Block
\* keeps is an end of the pair the worker polls; once the Block is dropped
\* the pair the worker polls has been written.
CE_C40_KillEventStaysPaired ==
    /\ workers_spawned <= 1
    /\ (worker_pc = "poll" /\ ~dropped) =>
          (kill_evt /\ blk.self_pair = blk.worker_pair)
    /\ (worker_pc = "poll" /\ dropped) => blk.worker_pair \in blk.written

====
